---- MODULE Spec2Model ----
(***************************************************************************)
(* Blog post CRUD API of cdk-go: the layered Lambda (BlogHandler over      *)
(* BlogService over S3Repository) and its response builder.                *)
(*                                                                         *)
(* Go strings are sequences of one-character strings, error messages are   *)
(* sequences of words, and a JSON text is its syntax tree: a record with   *)
(* the kind of the top-level value and the members of an object, each      *)
(* member holding the escaped characters of a string or the digits of a    *)
(* number.  json.Marshal and json.Unmarshal convert between these trees    *)
(* and the Go structs.                                                     *)
(***************************************************************************)
EXTENDS Integers, Sequences, FiniteSets, TLC

VARIABLES store, last, wf, inflight, built, par, cache, now, clog, running

vars == <<store, last, wf, inflight, built, par, cache, now, clog, running>>

(***************************************************************************)
(* Bounds                                                                  *)
(***************************************************************************)
\* Largest post id a create may assign in the model.
MaxId == 2

\* Largest number of backend calls that fail within one request.
MaxFailures == 1

\* Largest number of keys in one ListObjectsV2 response: the 1000 keys of the
\* S3 API, scaled to the buckets of the model.
MaxKeys == 2

\* The clock stops after MaxNow ticks.
MaxNow == 3

\* The TTL that NewBlogService gives its cache (5 minutes), in ticks.
ServiceTTL == 2

Ids == 1..MaxId

(***************************************************************************)
(* Strings                                                                 *)
(***************************************************************************)
sHello == <<"H", "e", "l", "l", "o">>
sWorld == <<"W", "o", "r", "l", "d">>
sHi == <<"H", "i", "\"", "<">>
sBlank == <<" ", "\t">>
sEmpty == <<>>

\* unicode.IsSpace for the characters of the model
IsSpace(c) == c \in {" ", "\t", "\n", "\r"}

RECURSIVE TrimLeft(_)
TrimLeft(s) ==
    IF s = <<>> THEN <<>>
    ELSE IF IsSpace(Head(s)) THEN TrimLeft(Tail(s)) ELSE s

RECURSIVE TrimRight(_)
TrimRight(s) ==
    IF s = <<>> THEN <<>>
    ELSE IF IsSpace(s[Len(s)]) THEN TrimRight(SubSeq(s, 1, Len(s) - 1)) ELSE s

\* strings.TrimSpace
TrimSpace(s) == TrimRight(TrimLeft(s))

\* strings.HasPrefix
HasPrefix(s, p) == Len(s) >= Len(p) /\ SubSeq(s, 1, Len(p)) = p

\* strings.HasSuffix
HasSuffix(s, p) == Len(s) >= Len(p) /\ SubSeq(s, Len(s) - Len(p) + 1, Len(s)) = p

\* strings.TrimPrefix
TrimPrefix(s, p) == IF HasPrefix(s, p) THEN SubSeq(s, Len(p) + 1, Len(s)) ELSE s

\* strings.Contains, on the words of a message
Contains(s, sub) ==
    \E i \in 1..(Len(s) - Len(sub) + 1) : SubSeq(s, i, i + Len(sub) - 1) = sub

Digits == <<"0", "1", "2", "3", "4", "5", "6", "7", "8", "9">>

IsDigit(c) == c \in {"0", "1", "2", "3", "4", "5", "6", "7", "8", "9"}

DigitVal(c) ==
    CASE c = "0" -> 0 [] c = "1" -> 1 [] c = "2" -> 2 [] c = "3" -> 3 [] c = "4" -> 4
      [] c = "5" -> 5 [] c = "6" -> 6 [] c = "7" -> 7 [] c = "8" -> 8 [] c = "9" -> 9

RECURSIVE ParseDigits(_, _)
ParseDigits(s, acc) ==
    IF s = <<>> THEN acc ELSE ParseDigits(Tail(s), acc * 10 + DigitVal(Head(s)))

\* strconv.Atoi: an optional sign followed by one or more decimal digits
Atoi(s) ==
    LET signed == s # <<>> /\ Head(s) \in {"+", "-"}
        ds == IF signed THEN Tail(s) ELSE s
    IN  IF ds = <<>> \/ \E i \in 1..Len(ds) : ~IsDigit(ds[i])
        THEN [err |-> TRUE, n |-> 0]
        ELSE [err |-> FALSE,
              n |-> IF signed /\ Head(s) = "-" THEN 0 - ParseDigits(ds, 0)
                    ELSE ParseDigits(ds, 0)]

RECURSIVE NatDigits(_)
NatDigits(n) ==
    IF n < 10 THEN <<Digits[n + 1]>> ELSE NatDigits(n \div 10) \o <<Digits[(n % 10) + 1]>>

\* the %d verb of fmt.Sprintf
Itoa(n) == IF n < 0 THEN <<"-">> \o NatDigits(0 - n) ELSE NatDigits(n)

(***************************************************************************)
(* Data model (lambda/internal/model)                                      *)
(***************************************************************************)
\* time.Time values, written as their RFC 3339 text; tZero is the zero time
tZero == <<"0001-01-01T00:00:00Z">>
tSeed == <<"2024-01-01T00:00:00Z">>
ValidTimes == {tZero, tSeed}

\* model.Post
Post(id, title, content, created, updated) ==
    [id |-> id, title |-> title, content |-> content,
     created_at |-> created, updated_at |-> updated]

\* the zero value of model.Post
ZeroPost == Post(0, <<>>, <<>>, tZero, tZero)

\* model.PostRequest
PostRequest(title, content) == [title |-> title, content |-> content]

ZeroPostRequest == PostRequest(<<>>, <<>>)

(***************************************************************************)
(* encoding/json                                                           *)
(***************************************************************************)
Member(k, t, v) == [k |-> k, t |-> t, v |-> v]

\* a JSON text whose top-level value is an object
Obj(members) == [kind |-> "object", members |-> members, items |-> <<>>]

\* a JSON text whose top-level value is an array of objects
Arr(items) == [kind |-> "array", members |-> <<>>, items |-> items]

\* the text null, the empty text, and a text that is not JSON
JNull == [kind |-> "null", members |-> <<>>, items |-> <<>>]
EmptyText == [kind |-> "empty", members |-> <<>>, items |-> <<>>]
Malformed == [kind |-> "malformed", members |-> <<>>, items |-> <<>>]

\* the escape json.Marshal writes for a character (HTML escaping is on)
EscapeChar(c) ==
    CASE c = "\"" -> "\\\""
      [] c = "\\" -> "\\\\"
      [] c = "\t" -> "\\t"
      [] c = "\n" -> "\\n"
      [] c = "\r" -> "\\r"
      [] c = "<"  -> "\\u003c"
      [] c = ">"  -> "\\u003e"
      [] c = "&"  -> "\\u0026"
      [] OTHER    -> c

Escape(s) == [i \in 1..Len(s) |-> EscapeChar(s[i])]

\* the character an escape sequence of a string literal stands for
UnescapeChar(e) ==
    CASE e = "\\\"" -> "\""
      [] e = "\\\\" -> "\\"
      [] e = "\\t" -> "\t"
      [] e = "\\n" -> "\n"
      [] e = "\\r" -> "\r"
      [] e = "\\u003c" -> "<"
      [] e = "\\u003e" -> ">"
      [] e = "\\u0026" -> "&"
      [] OTHER -> e

Unescape(v) == [i \in 1..Len(v) |-> UnescapeChar(v[i])]

\* a string literal may not hold a raw quote, backslash or control character
ValidLiteral(v) == \A i \in 1..Len(v) : v[i] \notin {"\"", "\\", "\t", "\n", "\r"}

\* a number that fits a Go int: an optional minus sign and digits
IsJSONInt(v) ==
    LET ds == IF v # <<>> /\ Head(v) = "-" THEN Tail(v) ELSE v
    IN  ds # <<>> /\ \A i \in 1..Len(ds) : IsDigit(ds[i])

errNone == <<>>
errSyntax == <<"invalid", "character", "in", "JSON", "text">>
errEOF == <<"unexpected", "end", "of", "JSON", "input">>
errType == <<"json:", "cannot", "unmarshal", "value", "into", "Go", "value">>

\* the syntax check json.Unmarshal runs before it decodes anything
checkValid(text) ==
    CASE text.kind = "empty" -> errEOF
      [] text.kind = "malformed" -> errSyntax
      [] text.kind = "object" /\ \E i \in 1..Len(text.members) :
              text.members[i].t = "str" /\ ~ValidLiteral(text.members[i].v) -> errSyntax
      [] OTHER -> errNone

\* json.Marshal(post)
MarshalPostMembers(post) ==
    << Member("id", "num", Itoa(post.id)),
       Member("title", "str", Escape(post.title)),
       Member("content", "str", Escape(post.content)),
       Member("created_at", "str", post.created_at),
       Member("updated_at", "str", post.updated_at) >>

MarshalPost(post) == Obj(MarshalPostMembers(post))

\* json.Marshal(posts) for a non-nil slice
MarshalPosts(posts) == Arr([i \in 1..Len(posts) |-> MarshalPostMembers(posts[i])])

\* json.Marshal(map[string]string{"error": message}); a message is written
\* as its words
MarshalError(message) == Obj(<<Member("error", "str", Escape(message))>>)

\* decoding one member into a model.Post: r is [err, post]
DecodePostMember(r, m) ==
    CASE m.t = "null" -> r
      [] m.k = "id" ->
            IF m.t = "num" /\ IsJSONInt(m.v)
            THEN [r EXCEPT !.post.id = Atoi(m.v).n]
            ELSE [r EXCEPT !.err = IF r.err = errNone THEN errType ELSE r.err]
      [] m.k \in {"title", "content"} ->
            IF m.t = "str"
            THEN [r EXCEPT !.post[m.k] = Unescape(m.v)]
            ELSE [r EXCEPT !.err = IF r.err = errNone THEN errType ELSE r.err]
      [] m.k \in {"created_at", "updated_at"} ->
            IF m.t = "str" /\ m.v \in ValidTimes
            THEN [r EXCEPT !.post[m.k] = m.v]
            ELSE [r EXCEPT !.err = IF r.err = errNone THEN errType ELSE r.err]
      [] OTHER -> r

RECURSIVE DecodePostMembers(_, _)
DecodePostMembers(r, ms) ==
    IF ms = <<>> THEN r ELSE DecodePostMembers(DecodePostMember(r, Head(ms)), Tail(ms))

\* json.Unmarshal(body, &post) into a zero model.Post
UnmarshalPost(text) ==
    LET syn == checkValid(text)
    IN  CASE syn # errNone -> [err |-> syn, post |-> ZeroPost]
          [] text.kind = "null" -> [err |-> errNone, post |-> ZeroPost]
          [] text.kind = "object" ->
                DecodePostMembers([err |-> errNone, post |-> ZeroPost], text.members)
          [] OTHER -> [err |-> errType, post |-> ZeroPost]

\* decoding one member into a model.PostRequest: r is [err, req]
DecodeRequestMember(r, m) ==
    CASE m.t = "null" -> r
      [] m.k \in {"title", "content"} ->
            IF m.t = "str"
            THEN [r EXCEPT !.req[m.k] = Unescape(m.v)]
            ELSE [r EXCEPT !.err = IF r.err = errNone THEN errType ELSE r.err]
      [] OTHER -> r

RECURSIVE DecodeRequestMembers(_, _)
DecodeRequestMembers(r, ms) ==
    IF ms = <<>> THEN r
    ELSE DecodeRequestMembers(DecodeRequestMember(r, Head(ms)), Tail(ms))

\* json.Unmarshal([]byte(body), &req) into a zero model.PostRequest
UnmarshalPostRequest(text) ==
    LET syn == checkValid(text)
    IN  CASE syn # errNone -> [err |-> syn, req |-> ZeroPostRequest]
          [] text.kind = "null" -> [err |-> errNone, req |-> ZeroPostRequest]
          [] text.kind = "object" ->
                DecodeRequestMembers([err |-> errNone, req |-> ZeroPostRequest],
                                     text.members)
          [] OTHER -> [err |-> errType, req |-> ZeroPostRequest]

(***************************************************************************)
(* The S3 bucket and its client                                            *)
(***************************************************************************)
\* fmt.Sprintf("posts/%d.json", id)
PostKey(id) == <<"posts/">> \o Itoa(id) \o <<".json">>

\* the keys of the sample uploads and of the folder marker of the prefix
HelloKey == <<"posts/", "hello", ".json">>
FolderKey == <<"posts/">>

\* ListObjectsV2 returns keys in lexicographic order: the prefix itself, the
\* numbered keys (single digits here), then posts/hello.json.
KeyOrder == <<FolderKey>> \o [i \in 1..MaxId |-> PostKey(i)] \o <<HelloKey>>

Keys == {KeyOrder[i] : i \in 1..Len(KeyOrder)}

Absent == [kind |-> "absent", members |-> <<>>, items |-> <<>>]

\* the calls a request can see fail for a reason other than a missing key
FailPoints ==
    {[op |-> "list", key |-> <<>>], [op |-> "put", key |-> <<>>],
     [op |-> "delete", key |-> <<>>]}
    \cup {[op |-> "get", key |-> k] : k \in Keys}

Fails(plan, op, key) ==
    \E f \in plan : f.op = op /\ (f.key = key \/ f.op # "get")

errBackend == <<"operation", "error", "S3", ":", "request", "failed">>

\* the log of a backend call: res is "ok", "nokey" (GetObject of a missing key),
\* "failed" (any other failure) or "undecodable" (bytes that are no model.Post)
Call(op, key, res) == [op |-> op, key |-> key, res |-> res]

Res(err) == IF err = errNone THEN "ok" ELSE "failed"

\* s3.Client.GetObject
GetObject(st, plan, key) ==
    CASE Fails(plan, "get", key) ->
            [err |-> errBackend, noSuchKey |-> FALSE, body |-> Absent]
      [] key \notin DOMAIN st \/ st[key] = Absent ->
            [err |-> <<"NoSuchKey">>, noSuchKey |-> TRUE, body |-> Absent]
      [] OTHER -> [err |-> errNone, noSuchKey |-> FALSE, body |-> st[key]]

\* mutant: a key that holds an object is not overwritten
PutObject_KeepExisting(st, plan, key, body) ==
    IF Fails(plan, "put", key)
    THEN [err |-> errBackend, store |-> st]
    ELSE [err |-> errNone,
          store |-> IF key \in DOMAIN st
                    THEN (IF st[key] = Absent THEN [st EXCEPT ![key] = body] ELSE st)
                    ELSE st @@ (key :> body)]

\* s3.Client.PutObject
PutObject(st, plan, key, body) ==
    IF Fails(plan, "put", key)
    THEN [err |-> errBackend, store |-> st]
    ELSE [err |-> errNone,
          store |-> IF key \in DOMAIN st THEN [st EXCEPT ![key] = body]
                    ELSE st @@ (key :> body)]

\* s3.Client.DeleteObject: deleting a missing key succeeds
DeleteObject(st, plan, key) ==
    IF Fails(plan, "delete", key)
    THEN [err |-> errBackend, store |-> st]
    ELSE [err |-> errNone,
          store |-> IF key \in DOMAIN st THEN [st EXCEPT ![key] = Absent] ELSE st]

\* the first page of a listing: ListPosts sends one request, without a
\* continuation token
FirstKeys(keys) == SubSeq(keys, 1, IF Len(keys) < MaxKeys THEN Len(keys) ELSE MaxKeys)

\* s3.Client.ListObjectsV2 with Prefix "posts/"
ListObjectsV2(st, plan) ==
    IF Fails(plan, "list", <<>>)
    THEN [err |-> errBackend, contents |-> <<>>]
    ELSE [err |-> errNone,
          contents |-> FirstKeys(SelectSeq(KeyOrder, LAMBDA k : st[k] # Absent))]

(***************************************************************************)
(* S3Repository (lambda/internal/repository/s3.go)                         *)
(***************************************************************************)
\* isNotFoundError
isNotFoundError(out) == out.err # errNone /\ out.noSuchKey

\* the result of a GetObject call in the log of calls
GetResult(out, dec) ==
    CASE out.noSuchKey -> "nokey"
      [] out.err # errNone -> "failed"
      [] dec.err # errNone -> "undecodable"
      [] OTHER -> "ok"

\* S3Repository.getPostByKey once GetObject has returned out and, when it
\* returned a body, json.Unmarshal has returned dec
getPostByKey_Out(key, out, dec) ==
    LET call == <<Call("get", key, GetResult(out, dec))>>
    IN  CASE out.err # errNone /\ isNotFoundError(out) ->
                [err |-> <<"post", "not", "found">>, post |-> ZeroPost, calls |-> call]
          [] out.err # errNone ->
                [err |-> <<"failed", "to", "get", "post", ":">> \o out.err,
                 post |-> ZeroPost, calls |-> call]
          [] dec.err # errNone ->
                [err |-> <<"failed", "to", "unmarshal", "post", ":">> \o dec.err,
                 post |-> ZeroPost, calls |-> call]
          [] OTHER -> [err |-> errNone, post |-> dec.post, calls |-> call]

\* the body of a GetObject output, read and decoded
getPostByKey_Body(key, out) == getPostByKey_Out(key, out, UnmarshalPost(out.body))

\* S3Repository.getPostByKey
getPostByKey(st, plan, key) == getPostByKey_Body(key, GetObject(st, plan, key))

\* S3Repository.savePost
savePost(st, plan, key, post) ==
    LET put == PutObject(st, plan, key, MarshalPost(post))
        call == <<Call("put", key, Res(put.err))>>
    IN  IF put.err # errNone
        THEN [err |-> <<"failed", "to", "save", "post", ":">> \o put.err,
              store |-> st, calls |-> call]
        ELSE [err |-> errNone, store |-> put.store, calls |-> call]

\* one round of the loop of S3Repository.ListPosts: r is [posts, calls] and
\* got the result of getPostByKey for the key
ListPostsRound(r, key, got) ==
    IF ~HasSuffix(key, <<".json">>) THEN r
    ELSE IF got.err # errNone THEN [r EXCEPT !.calls = @ \o got.calls]
    ELSE [posts |-> Append(r.posts, got.post), calls |-> r.calls \o got.calls]

\* the loop of S3Repository.ListPosts over out.Contents
RECURSIVE ListPostsLoop(_, _, _, _)
ListPostsLoop(st, plan, contents, r) ==
    IF contents = <<>> THEN r
    ELSE ListPostsLoop(st, plan, Tail(contents),
                       ListPostsRound(r, Head(contents),
                                      getPostByKey(st, plan, Head(contents))))

\* mutant: an object that cannot be fetched or decoded fails the listing
S3Repository_ListPosts_FailFast(st, plan, out) ==
    LET call == <<Call("list", <<>>, Res(out.err))>>
        r == ListPostsLoop(st, plan, out.contents, [posts |-> <<>>, calls |-> call])
    IN  CASE out.err # errNone ->
                [err |-> <<"failed", "to", "list", "posts", ":">> \o out.err,
                 posts |-> <<>>, calls |-> call]
          [] Len(r.calls) # Len(r.posts) + 1 ->
                [err |-> <<"failed", "to", "get", "post">>, posts |-> <<>>,
                 calls |-> r.calls]
          [] OTHER -> [err |-> errNone] @@ r

\* S3Repository.ListPosts once ListObjectsV2 has returned out
S3Repository_ListPosts_Out(st, plan, out) ==
    LET call == <<Call("list", <<>>, Res(out.err))>>
    IN  IF out.err # errNone
        THEN [err |-> <<"failed", "to", "list", "posts", ":">> \o out.err,
              posts |-> <<>>, calls |-> call]
        ELSE [err |-> errNone] @@
             ListPostsLoop(st, plan, out.contents, [posts |-> <<>>, calls |-> call])

\* S3Repository.ListPosts
S3Repository_ListPosts(st, plan) ==
    S3Repository_ListPosts_Out(st, plan, ListObjectsV2(st, plan))

\* S3Repository.GetPost
S3Repository_GetPost(st, plan, id) == getPostByKey(st, plan, PostKey(id))

\* mutant: the key is built from another id than the id of the post
S3Repository_CreatePost_OtherKey(st, plan, post) ==
    savePost(st, plan, PostKey(post.id + 1), post)

\* mutant: a post whose key holds an object is not written
S3Repository_CreatePost_IfAbsent(st, plan, post) ==
    IF PostKey(post.id) \in DOMAIN st /\ st[PostKey(post.id)] # Absent
    THEN [err |-> <<"post", "already", "exists">>, store |-> st, calls |-> <<>>]
    ELSE savePost(st, plan, PostKey(post.id), post)

\* S3Repository.CreatePost
S3Repository_CreatePost(st, plan, post) == savePost(st, plan, PostKey(post.id), post)

\* mutant: the id of the post is not overwritten with the id of the URL
S3Repository_UpdatePost_KeepId(st, plan, id, post) ==
    LET r == savePost(st, plan, PostKey(id), post)
    IN  [err |-> r.err, store |-> r.store, calls |-> r.calls, post |-> post]

\* mutant: the id of the post is overwritten only after the post was saved
S3Repository_UpdatePost_IdAfterSave(st, plan, id, post) ==
    LET r == savePost(st, plan, PostKey(id), post)
    IN  [err |-> r.err, store |-> r.store, calls |-> r.calls,
         post |-> [post EXCEPT !.id = id]]

\* S3Repository.UpdatePost: the id of the URL wins over the id of the post
\* (post is a pointer: the caller sees the overwritten id)
S3Repository_UpdatePost(st, plan, id, post) ==
    LET p == [post EXCEPT !.id = id]
        r == savePost(st, plan, PostKey(id), p)
    IN  [err |-> r.err, store |-> r.store, calls |-> r.calls, post |-> p]

\* mutant: deleting an id that has no object is an error
S3Repository_DeletePost_Strict(st, plan, id) ==
    LET del == DeleteObject(st, plan, PostKey(id))
    IN  [err |-> IF PostKey(id) \in DOMAIN st /\ st[PostKey(id)] # Absent
                 THEN errNone ELSE <<"post", "not", "found">>,
         store |-> del.store,
         calls |-> <<Call("delete", PostKey(id), Res(del.err))>>]

\* mutant: every numbered post is deleted with the post of the id
S3Repository_DeletePost_All(st, plan, id) ==
    LET del == DeleteObject(st, plan, PostKey(id))
    IN  [err |-> errNone,
         store |-> IF del.err # errNone THEN st
                   ELSE [k \in DOMAIN st |->
                            IF \E i \in Ids : k = PostKey(i) THEN Absent ELSE st[k]],
         calls |-> <<Call("delete", PostKey(id), Res(del.err))>>]

\* S3Repository.DeletePost: a failed DeleteObject is logged and nil is returned
S3Repository_DeletePost(st, plan, id) ==
    LET del == DeleteObject(st, plan, PostKey(id))
    IN  [err |-> errNone, store |-> del.store,
         calls |-> <<Call("delete", PostKey(id), Res(del.err))>>]

(***************************************************************************)
(* Response builder (lambda/internal/response/response.go)                 *)
(***************************************************************************)
JSONHeaders == {<<"Content-Type", "application/json">>}

Response(code, body, headers) == [status |-> code, body |-> body, headers |-> headers]

\* the values passed as data interface{}: a *model.Post, a []model.Post, and
\* values encoding/json rejects (a channel: UnsupportedTypeError; a NaN
\* float64: UnsupportedValueError)
PostValue(post) == [type |-> "post", post |-> post, posts |-> <<>>]
PostsValue(posts) == [type |-> "posts", post |-> ZeroPost, posts |-> posts]
ChanValue == [type |-> "chan", post |-> ZeroPost, posts |-> <<>>]
NaNValue == [type |-> "nan", post |-> ZeroPost, posts |-> <<>>]
NoValue == [type |-> "none", post |-> ZeroPost, posts |-> <<>>]

errUnsupported == <<"json:", "unsupported", "type", "or", "value">>

\* json.Marshal(data)
jsonMarshal(data) ==
    CASE data.type = "post" -> [err |-> errNone, body |-> MarshalPost(data.post)]
      [] data.type = "posts" -> [err |-> errNone, body |-> MarshalPosts(data.posts)]
      [] OTHER -> [err |-> errUnsupported, body |-> EmptyText]

\* mutant: the body of an error is the bare message, without a content type
errorResponse_PlainText(code, message) ==
    Response(code, [kind |-> "string", members |-> <<>>, items |-> message], {})

\* response.errorResponse: a map[string]string always marshals
errorResponse(code, message) == Response(code, MarshalError(message), JSONHeaders)

\* mutant: the failure of json.Marshal is ignored
Success_IgnoreError(data) == Response(200, jsonMarshal(data).body, JSONHeaders)

\* response.Success
Success(data) ==
    IF jsonMarshal(data).err # errNone
    THEN errorResponse(500, <<"failed", "to", "marshal", "response">>)
    ELSE Response(200, jsonMarshal(data).body, JSONHeaders)

\* response.Created
Created(data) ==
    IF jsonMarshal(data).err # errNone
    THEN errorResponse(500, <<"failed", "to", "marshal", "response">>)
    ELSE Response(201, jsonMarshal(data).body, JSONHeaders)

\* response.NoContent
NoContent == Response(204, EmptyText, {})

\* response.BadRequest
BadRequest(message) == errorResponse(400, message)

\* response.NotFound
NotFound(message) == errorResponse(404, message)

\* response.InternalServerError
InternalServerError(message) == errorResponse(500, message)

(***************************************************************************)
(* BlogService (lambda/internal/service/blog.go)                           *)
(***************************************************************************)
\* mutant: the fields are compared with "" without trimming them
validatePostRequest_NoTrim(req) ==
    CASE req.title = <<>> -> <<"title", "is", "required">>
      [] req.content = <<>> -> <<"content", "is", "required">>
      [] OTHER -> errNone

\* BlogService.validatePostRequest
validatePostRequest(req) ==
    CASE TrimSpace(req.title) = <<>> -> <<"title", "is", "required">>
      [] TrimSpace(req.content) = <<>> -> <<"content", "is", "required">>
      [] OTHER -> errNone

RECURSIVE MaxPostID(_, _)
MaxPostID(posts, maxID) ==
    IF posts = <<>> THEN maxID
    ELSE MaxPostID(Tail(posts), IF Head(posts).id > maxID THEN Head(posts).id ELSE maxID)

\* mutant: the largest id is returned without the increment
generateNextID_NoIncrement(l) ==
    IF l.err # errNone
    THEN [id |-> 1, calls |-> l.calls]
    ELSE [id |-> MaxPostID(l.posts, 0), calls |-> l.calls]

\* BlogService.generateNextID once the repository has listed the posts: a
\* failed listing starts again from 1
generateNextID_Listed(l) ==
    IF l.err # errNone
    THEN [id |-> 1, calls |-> l.calls]
    ELSE [id |-> MaxPostID(l.posts, 0) + 1, calls |-> l.calls]

\* BlogService.generateNextID
generateNextID(st, plan) == generateNextID_Listed(S3Repository_ListPosts(st, plan))

SvcResult(err, post, posts, st, calls) ==
    [err |-> err, post |-> post, posts |-> posts, store |-> st, calls |-> calls]

\* BlogService.ListPosts once the repository has returned l
BlogService_ListPosts_Listed(st, l) ==
    IF l.err # errNone
    THEN SvcResult(<<"failed", "to", "list", "posts", ":">> \o l.err,
                   ZeroPost, <<>>, st, l.calls)
    ELSE SvcResult(errNone, ZeroPost, l.posts, st, l.calls)

\* BlogService.ListPosts
BlogService_ListPosts(st, plan) ==
    BlogService_ListPosts_Listed(st, S3Repository_ListPosts(st, plan))

\* BlogService.GetPost once the repository has returned g
BlogService_GetPost_Fetched(st, g) ==
    IF g.err # errNone
    THEN SvcResult(<<"failed", "to", "get", "post", ":">> \o g.err,
                   ZeroPost, <<>>, st, g.calls)
    ELSE SvcResult(errNone, g.post, <<>>, st, g.calls)

\* BlogService.GetPost
BlogService_GetPost(st, plan, id) ==
    IF id <= 0
    THEN SvcResult(<<"invalid", "post", "ID", ":">> \o Itoa(id), ZeroPost, <<>>, st, <<>>)
    ELSE BlogService_GetPost_Fetched(st, S3Repository_GetPost(st, plan, id))

\* BlogService.CreatePost once generateNextID has returned next
BlogService_CreatePost_WithID(st, plan, req, next) ==
    LET post == Post(next.id, req.title, req.content, tZero, tZero)
        c == S3Repository_CreatePost(st, plan, post)
    IN  IF c.err # errNone
        THEN SvcResult(<<"failed", "to", "create", "post", ":">> \o c.err,
                       ZeroPost, <<>>, st, next.calls \o c.calls)
        ELSE SvcResult(errNone, post, <<>>, c.store, next.calls \o c.calls)

\* BlogService.CreatePost
BlogService_CreatePost(st, plan, req) ==
    LET v == validatePostRequest(req)
    IN  IF v # errNone
        THEN SvcResult(<<"invalid", "post", "request", ":">> \o v, ZeroPost, <<>>, st, <<>>)
        ELSE BlogService_CreatePost_WithID(st, plan, req, generateNextID(st, plan))

\* mutant: a post that cannot be fetched is written from scratch
BlogService_UpdatePost_Upsert(st, plan, id, req, g) ==
    LET existingPost == [g.post EXCEPT !.title = req.title, !.content = req.content]
        u == S3Repository_UpdatePost(st, plan, id, existingPost)
    IN  IF u.err # errNone
        THEN SvcResult(<<"failed", "to", "update", "post", ":">> \o u.err,
                       ZeroPost, <<>>, st, g.calls \o u.calls)
        ELSE SvcResult(errNone, u.post, <<>>, u.store, g.calls \o u.calls)

\* BlogService.UpdatePost once the repository has returned g for the id
BlogService_UpdatePost_Fetched(st, plan, id, req, g) ==
    LET existingPost == [g.post EXCEPT !.title = req.title, !.content = req.content]
        u == S3Repository_UpdatePost(st, plan, id, existingPost)
    IN  CASE g.err # errNone ->
                SvcResult(<<"post", "not", "found", ":">> \o g.err,
                          ZeroPost, <<>>, st, g.calls)
          [] u.err # errNone ->
                SvcResult(<<"failed", "to", "update", "post", ":">> \o u.err,
                          ZeroPost, <<>>, st, g.calls \o u.calls)
          [] OTHER -> SvcResult(errNone, u.post, <<>>, u.store, g.calls \o u.calls)

\* mutant: the post is fetched before the request is validated
BlogService_UpdatePost_FetchFirst(st, plan, id, req) ==
    LET v == validatePostRequest(req)
        g == S3Repository_GetPost(st, plan, id)
    IN  CASE id <= 0 ->
                SvcResult(<<"invalid", "post", "ID", ":">> \o Itoa(id),
                          ZeroPost, <<>>, st, <<>>)
          [] g.err # errNone ->
                SvcResult(<<"post", "not", "found", ":">> \o g.err,
                          ZeroPost, <<>>, st, g.calls)
          [] v # errNone ->
                SvcResult(<<"invalid", "post", "request", ":">> \o v,
                          ZeroPost, <<>>, st, g.calls)
          [] OTHER -> BlogService_UpdatePost_Fetched(st, plan, id, req, g)

\* BlogService.UpdatePost
BlogService_UpdatePost(st, plan, id, req) ==
    LET v == validatePostRequest(req)
    IN  CASE id <= 0 ->
                SvcResult(<<"invalid", "post", "ID", ":">> \o Itoa(id),
                          ZeroPost, <<>>, st, <<>>)
          [] v # errNone ->
                SvcResult(<<"invalid", "post", "request", ":">> \o v,
                          ZeroPost, <<>>, st, <<>>)
          [] OTHER ->
                BlogService_UpdatePost_Fetched(st, plan, id, req,
                                               S3Repository_GetPost(st, plan, id))

\* mutant: the post is deleted whether or not it could be fetched
BlogService_DeletePost_NoCheck(st, plan, id, g) ==
    LET d == S3Repository_DeletePost(st, plan, id)
    IN  IF d.err # errNone
        THEN SvcResult(<<"failed", "to", "delete", "post", ":">> \o d.err,
                       ZeroPost, <<>>, st, g.calls \o d.calls)
        ELSE SvcResult(errNone, ZeroPost, <<>>, d.store, g.calls \o d.calls)

\* BlogService.DeletePost once the repository has returned g for the id
BlogService_DeletePost_Fetched(st, plan, id, g) ==
    LET d == S3Repository_DeletePost(st, plan, id)
    IN  CASE g.err # errNone ->
                SvcResult(<<"post", "not", "found", ":">> \o g.err,
                          ZeroPost, <<>>, st, g.calls)
          [] d.err # errNone ->
                SvcResult(<<"failed", "to", "delete", "post", ":">> \o d.err,
                          ZeroPost, <<>>, st, g.calls \o d.calls)
          [] OTHER -> SvcResult(errNone, ZeroPost, <<>>, d.store, g.calls \o d.calls)

\* BlogService.DeletePost
BlogService_DeletePost(st, plan, id) ==
    IF id <= 0
    THEN SvcResult(<<"invalid", "post", "ID", ":">> \o Itoa(id), ZeroPost, <<>>, st, <<>>)
    ELSE BlogService_DeletePost_Fetched(st, plan, id, S3Repository_GetPost(st, plan, id))

(***************************************************************************)
(* BlogHandler (lambda/internal/handler/blog.go)                           *)
(***************************************************************************)
pPosts == <<"/", "p", "o", "s", "t", "s">>
pPostsSlash == pPosts \o <<"/">>

RECURSIVE LeadingDigits(_)
LeadingDigits(s) ==
    IF s = <<>> \/ ~IsDigit(Head(s)) THEN <<>> ELSE <<Head(s)>> \o LeadingDigits(Tail(s))

\* mutant: the id is scanned from the front of the text and the rest ignored
extractIDFromPath_LeadingDigits(path) ==
    Atoi(LeadingDigits(TrimPrefix(path, pPostsSlash)))

\* BlogHandler.extractIDFromPath
extractIDFromPath(path) == Atoi(TrimPrefix(path, pPostsSlash))

NoSvc == SvcResult(errNone, ZeroPost, <<>>, <<>>, <<>>)

\* what a handler did: the route taken, the id and request it parsed, whether
\* it called the service and with which result, and its response
Handled(route, id, req, called, svc, st, resp) ==
    [route |-> route, id |-> id, req |-> req, svcCalled |-> called,
     svcErr |-> svc.err, post |-> svc.post, posts |-> svc.posts,
     calls |-> svc.calls, store |-> st, resp |-> resp]

\* BlogHandler.handleListPosts once the service has returned r
handleListPosts_Served(r) ==
    Handled("list", 0, ZeroPostRequest, TRUE, r, r.store,
            IF r.err # errNone
            THEN InternalServerError(<<"failed", "to", "list", "posts">>)
            ELSE Success(PostsValue(r.posts)))

\* BlogHandler.handleListPosts
handleListPosts(st, plan) == handleListPosts_Served(BlogService_ListPosts(st, plan))

\* BlogHandler.handleGetPost once the service has returned r
handleGetPost_Served(id, r) ==
    Handled("get", id, ZeroPostRequest, TRUE, r, r.store,
            CASE r.err # errNone /\ Contains(r.err, <<"not", "found">>) ->
                    NotFound(<<"post", "not", "found">>)
              [] r.err # errNone ->
                    InternalServerError(<<"failed", "to", "get", "post">>)
              [] OTHER -> Success(PostValue(r.post)))

\* BlogHandler.handleGetPost
handleGetPost(st, plan, path) ==
    LET id == extractIDFromPath(path)
    IN  IF id.err
        THEN Handled("get", 0, ZeroPostRequest, FALSE, NoSvc, st,
                     BadRequest(<<"invalid", "post", "ID">>))
        ELSE handleGetPost_Served(id.n, BlogService_GetPost(st, plan, id.n))

\* BlogHandler.handleCreatePost once the service has returned r
handleCreatePost_Served(req, r) ==
    Handled("create", r.post.id, req, TRUE, r, r.store,
            CASE r.err # errNone /\ Contains(r.err, <<"invalid">>) -> BadRequest(r.err)
              [] r.err # errNone ->
                    InternalServerError(<<"failed", "to", "create", "post">>)
              [] OTHER -> Created(PostValue(r.post)))

\* BlogHandler.handleCreatePost
handleCreatePost(st, plan, body) ==
    LET u == UnmarshalPostRequest(body)
    IN  IF u.err # errNone
        THEN Handled("create", 0, ZeroPostRequest, FALSE, NoSvc, st,
                     BadRequest(<<"invalid", "request", "body">>))
        ELSE handleCreatePost_Served(u.req, BlogService_CreatePost(st, plan, u.req))

\* BlogHandler.handleUpdatePost once the service has returned r
handleUpdatePost_Served(id, req, r) ==
    Handled("update", id, req, TRUE, r, r.store,
            CASE r.err # errNone /\ Contains(r.err, <<"not", "found">>) ->
                    NotFound(<<"post", "not", "found">>)
              [] r.err # errNone /\ Contains(r.err, <<"invalid">>) -> BadRequest(r.err)
              [] r.err # errNone ->
                    InternalServerError(<<"failed", "to", "update", "post">>)
              [] OTHER -> Success(PostValue(r.post)))

\* BlogHandler.handleUpdatePost
handleUpdatePost(st, plan, path, body) ==
    LET id == extractIDFromPath(path)
        u == UnmarshalPostRequest(body)
    IN  CASE id.err ->
                Handled("update", 0, ZeroPostRequest, FALSE, NoSvc, st,
                        BadRequest(<<"invalid", "post", "ID">>))
          [] u.err # errNone ->
                Handled("update", id.n, ZeroPostRequest, FALSE, NoSvc, st,
                        BadRequest(<<"invalid", "request", "body">>))
          [] OTHER ->
                handleUpdatePost_Served(id.n, u.req,
                                        BlogService_UpdatePost(st, plan, id.n, u.req))

\* BlogHandler.handleDeletePost once the service has returned r
handleDeletePost_Served(id, r) ==
    Handled("delete", id, ZeroPostRequest, TRUE, r, r.store,
            CASE r.err # errNone /\ Contains(r.err, <<"not", "found">>) ->
                    NotFound(<<"post", "not", "found">>)
              [] r.err # errNone ->
                    InternalServerError(<<"failed", "to", "delete", "post">>)
              [] OTHER -> NoContent)

\* BlogHandler.handleDeletePost
handleDeletePost(st, plan, path) ==
    LET id == extractIDFromPath(path)
    IN  IF id.err
        THEN Handled("delete", 0, ZeroPostRequest, FALSE, NoSvc, st,
                     BadRequest(<<"invalid", "post", "ID">>))
        ELSE handleDeletePost_Served(id.n, BlogService_DeletePost(st, plan, id.n))

Routes == {"list", "get", "create", "update", "delete"}

\* mutant: the create case tests the prefix of the path, not the whole path
Matches_CreateByPrefix(route, method, path) ==
    CASE route = "list" -> method = "GET" /\ path = pPosts
      [] route = "get" -> method = "GET" /\ HasPrefix(path, pPostsSlash)
      [] route = "create" -> method = "POST" /\ HasPrefix(path, pPosts)
      [] route = "update" -> method = "PUT" /\ HasPrefix(path, pPostsSlash)
      [] route = "delete" -> method = "DELETE" /\ HasPrefix(path, pPostsSlash)
      [] OTHER -> FALSE

\* the conditions of the cases of the switch of BlogHandler.HandleRequest
Matches(route, method, path) ==
    CASE route = "list" -> method = "GET" /\ path = pPosts
      [] route = "get" -> method = "GET" /\ HasPrefix(path, pPostsSlash)
      [] route = "create" -> method = "POST" /\ path = pPosts
      [] route = "update" -> method = "PUT" /\ HasPrefix(path, pPostsSlash)
      [] route = "delete" -> method = "DELETE" /\ HasPrefix(path, pPostsSlash)
      [] OTHER -> FALSE

\* BlogHandler.HandleRequest: the first case of the switch that matches
HandleRequest(st, plan, method, path, body) ==
    CASE Matches("list", method, path) -> handleListPosts(st, plan)
      [] Matches("get", method, path) -> handleGetPost(st, plan, path)
      [] Matches("create", method, path) -> handleCreatePost(st, plan, body)
      [] Matches("update", method, path) -> handleUpdatePost(st, plan, path, body)
      [] Matches("delete", method, path) -> handleDeletePost(st, plan, path)
      [] OTHER -> Handled("none", 0, ZeroPostRequest, FALSE, NoSvc, st,
                          NotFound(<<"route", "not", "found">>))

(***************************************************************************)
(* Inputs: requests of the API Gateway and the contents of the bucket      *)
(***************************************************************************)
sThere == <<"T", "h", "e", "r", "e">>
sSample == <<"#", " ", "H", "i", "\n">>

StrMember(k, s) == Member(k, "str", Escape(s))

RequestBody(title, content) == Obj(<<StrMember("title", title), StrMember("content", content)>>)

bHello == RequestBody(sHello, sWorld)
\* a title with an escaped quote and a raw "<", and an id no handler reads
bHi == Obj(<<Member("id", "num", <<"9">>),
             Member("title", "str", <<"H", "i", "\\\"", "<">>),
             StrMember("content", sThere)>>)
bEmptyTitle == RequestBody(sEmpty, sWorld)
bBlankTitle == RequestBody(sBlank, sWorld)
bBlankContent == RequestBody(sHello, sBlank)
bNoContent == Obj(<<StrMember("title", sHello)>>)
bNumberTitle == Obj(<<Member("title", "num", <<"7">>), StrMember("content", sWorld)>>)

Bodies == {bHello, bHi, bEmptyTitle, bBlankTitle, bBlankContent, bNoContent,
           bNumberTitle, JNull, EmptyText, Malformed}

Methods == {"GET", "POST", "PUT", "DELETE", "PATCH"}

PostPath(idText) == pPostsSlash \o idText

pOther == <<"/", "o", "t", "h", "e", "r">>
pAbc == PostPath(<<"a", "b", "c">>)
pExtra == PostPath(<<"1", "/", "e", "x", "t", "r", "a">>)
pZero == PostPath(<<"0">>)
pMinus == PostPath(<<"-", "1">>)
\* the path of an id the model never stores
pUnused == PostPath(Itoa(MaxId + 1))

Paths == {pPosts, pPostsSlash, pOther, pAbc, pExtra, pZero, pMinus, pUnused}
         \cup {PostPath(Itoa(i)) : i \in Ids}

Request(method, path, body) == [method |-> method, path |-> path, body |-> body]

Requests ==
    {Request(m, p, EmptyText) : m \in Methods, p \in Paths}
    \cup {Request("POST", pPosts, b) : b \in Bodies}
    \cup {Request("PUT", PostPath(<<"1">>), b) : b \in Bodies}
    \cup {Request("PUT", PostPath(Itoa(i)), b) : i \in Ids, b \in {bHello, bHi}}
    \cup {Request("PUT", p, b) : p \in {pUnused, pAbc, pZero},
                                 b \in {bHello, bBlankTitle, Malformed}}

EmptyStore == [k \in Keys |-> Absent]

\* hello.json of the API usage guide, uploaded as posts/1.json
SampleObject ==
    Obj(<<Member("id", "num", <<"1">>), StrMember("title", sHello),
          StrMember("content", sSample)>>)

\* hello.json of the CRUD reference, whose id is a string: not a model.Post
HelloObject ==
    Obj(<<Member("id", "str", <<"h", "e", "l", "l", "o">>), StrMember("title", sHello),
          StrMember("content", sSample)>>)

\* both samples uploaded, under a folder marker
SeededStore ==
    [EmptyStore EXCEPT ![FolderKey] = EmptyText, ![PostKey(1)] = SampleObject,
                       ![HelloKey] = HelloObject]
\* both samples uploaded under the keys of other posts
MisplacedStore ==
    [EmptyStore EXCEPT ![PostKey(1)] = HelloObject, ![PostKey(MaxId)] = SampleObject]

InitStores == {EmptyStore, SeededStore, MisplacedStore}

(***************************************************************************)
(* State machine of the layered Lambda: one request at a time              *)
(***************************************************************************)
NoResponse == Response(0, EmptyText, {})

\* the record of the operation that ran last
Entry(req, h, existed, changed, after, expect) ==
    [method |-> req.method, path |-> req.path, body |-> req.body,
     route |-> h.route, id |-> h.id, req |-> h.req, svcCalled |-> h.svcCalled,
     svcErr |-> h.svcErr, post |-> h.post, posts |-> h.posts, calls |-> h.calls,
     resp |-> h.resp, arg |-> ZeroPost,
     existed |-> existed, changed |-> changed, after |-> after, expect |-> expect]

NoEntry ==
    Entry(Request("", <<>>, EmptyText),
          Handled("init", 0, ZeroPostRequest, FALSE, NoSvc, <<>>, NoResponse),
          FALSE, FALSE, "none", ZeroPostRequest)

\* the test of TestBlogIntegration_FullWorkflow, with the bodies of the spec
Workflow ==
    << Request("POST", pPosts, bHello),
       Request("GET", pPosts, EmptyText),
       Request("GET", PostPath(<<"1">>), EmptyText),
       Request("PUT", PostPath(<<"1">>), bHi),
       Request("DELETE", PostPath(<<"1">>), EmptyText),
       Request("GET", PostPath(<<"1">>), EmptyText) >>

\* how far the last requests have followed the workflow from an empty bucket
WorkflowStep(st, req, plan) ==
    CASE plan # {} -> 0
      [] wf < Len(Workflow) /\ wf > 0 /\ req = Workflow[wf + 1] -> wf + 1
      [] req = Workflow[1] /\ st = EmptyStore -> 1
      [] OTHER -> 0

\* whether the bucket holds an object for the id of the operation
Existed(h) == PostKey(h.id) \in Keys /\ store[PostKey(h.id)] # Absent

\* the successful write the last request made, when this request reads its id
After(h) ==
    IF /\ h.route \in {"get", "repo.get"} /\ h.calls # <<>>
       /\ last.route \in {"create", "update", "delete",
                          "repo.create", "repo.update", "repo.delete"}
       /\ last.calls # <<>> /\ last.svcErr = errNone
       /\ last.id = h.id
    THEN last.route ELSE "none"

\* the Lambda invocations that can run at the same time
Invocations == {"a", "b"}

\* an invocation that has no request yet
Idle ==
    [pc |-> "idle", req |-> ZeroPostRequest, keys |-> <<>>,
     listed |-> [posts |-> <<>>, calls |-> <<>>], post |-> ZeroPost,
     resp |-> NoResponse, order |-> 0]

\* a goroutine of the parallel ListPosts that was not started
GoNone == [pc |-> "none", post |-> ZeroPost, tmp |-> <<>>]

\* no parallel ListPosts is running
ParIdle ==
    [pc |-> "idle", plan |-> {}, contents |-> <<>>, wg |-> 0, mu |-> <<>>,
     posts |-> <<>>, g |-> [k \in Keys |-> GoNone], err |-> errNone,
     resp |-> NoResponse, responses |-> 0]

\* no builder of the response package has been called
NoBuilt == [builder |-> "none", data |-> NoValue, message |-> <<>>, resp |-> NoResponse]

(***************************************************************************)
(* MemoryCache (lambda/internal/cache/memory.go).  Time is counted in      *)
(* ticks; time.Now() is the variable now, which never goes back.           *)
(***************************************************************************)
\* the keys the service uses: "posts:list" and fmt.Sprintf("post:%d", id)
ListCacheKey == <<"posts:list">>

PostCacheKey(id) == <<"post:">> \o Itoa(id)

CacheKeys == {ListCacheKey} \cup {PostCacheKey(i) : i \in Ids}

\* CacheItem; a key that is not in the map holds NoItem
CacheItem(data, expiresAt) == [exists |-> TRUE, Data |-> data, ExpiresAt |-> expiresAt]

\* no data: what Get returns with found = false
NoData == [type |-> "none"]

NoItem == [exists |-> FALSE]

\* NewMemoryCache
NewMemoryCache(ttl) == [items |-> [k \in CacheKeys |-> NoItem], ttl |-> ttl]

\* mutant: an entry is a hit whatever its expiry
MemoryCache_Get_NoExpiry(c, t, key) ==
    IF ~c.items[key].exists
    THEN [data |-> NoData, found |-> FALSE]
    ELSE [data |-> c.items[key].Data, found |-> TRUE]

\* MemoryCache.Get at time t
MemoryCache_Get(c, t, key) ==
    IF ~c.items[key].exists \/ t > c.items[key].ExpiresAt
    THEN [data |-> NoData, found |-> FALSE]
    ELSE [data |-> c.items[key].Data, found |-> TRUE]

\* MemoryCache.Set at time t
MemoryCache_Set(c, t, key, data) ==
    [c EXCEPT !.items[key] = CacheItem(data, t + c.ttl)]

\* MemoryCache.Delete
MemoryCache_Delete(c, key) == [c EXCEPT !.items[key] = NoItem]

\* MemoryCache.Clear
MemoryCache_Clear(c) == [c EXCEPT !.items = [k \in CacheKeys |-> NoItem]]

\* one round of the loop of MemoryCache.cleanup, at time t
MemoryCache_cleanup(c, t) ==
    [c EXCEPT !.items = [k \in CacheKeys |->
        IF c.items[k].exists /\ t > c.items[k].ExpiresAt THEN NoItem ELSE c.items[k]]]

\* the most recent Set of a key that no Delete or Clear has followed
NeverSet == [set |-> FALSE]

\* the record of the cache or service operation that ran last, with the
\* history of Set calls
NoCacheOp ==
    [op |-> "none", key |-> <<>>, found |-> FALSE, data |-> NoData, at |-> 0,
     err |-> errNone, calls |-> <<>>, sets |-> [k \in CacheKeys |-> NeverSet],
     clean |-> FALSE, fresh |-> NoData]

\* no call of the cached service is running
NoCall == [pc |-> "idle", op |-> "none", id |-> 0, got |-> NoData, clean |-> FALSE]

NoneRunning == [reader |-> NoCall, writer |-> NoCall, written |-> FALSE]

\* NewBlogService: the cache of the service, whose TTL of 5 minutes is
\* ServiceTTL ticks
NewBlogService_cache == NewMemoryCache(ServiceTTL)

Init ==
    /\ store \in InitStores
    /\ last = NoEntry
    /\ wf = 0
    /\ inflight = [p \in Invocations |-> Idle]
    /\ built = NoBuilt
    /\ par = ParIdle
    /\ cache = NewBlogService_cache
    /\ now = 0
    /\ clog = NoCacheOp
    /\ running = NoneRunning

\* the calls that can fail in a request: those it makes when none fails (a
\* failure only cuts a request short)
FailPointsOf(calls) ==
    {f \in FailPoints : \E i \in 1..Len(calls) :
        calls[i].op = f.op /\ (f.op = "get" => calls[i].key = f.key)}

\* the failures to try on a request whose run without a failure is h
PlansOf(h) == {p \in SUBSET FailPointsOf(h.calls) : Cardinality(p) <= MaxFailures}

\* the run of a request in which no call fails
Unfailed(req) == HandleRequest(store, {}, req.method, req.path, req.body)

\* the requests that the switch of HandleRequest takes to a route
RequestsOf(route) == {req \in Requests : Matches(route, req.method, req.path)}

ListRequests == RequestsOf("list")
GetRequests == RequestsOf("get")
CreateRequests == RequestsOf("create")
UpdateRequests == RequestsOf("update")
DeleteRequests == RequestsOf("delete")
OtherRequests == {req \in Requests : \A r \in Routes : ~Matches(r, req.method, req.path)}

\* the request is handled with the result h and the bucket follows
Handle_Done(req, plan, h) ==
    LET after == After(h)
    IN  /\ h.route = "create" /\ h.svcErr = errNone => h.id <= MaxId
        /\ store' = h.store
        /\ last' = Entry(req, h, Existed(h), h.store # store, after,
                         IF after = "none" THEN ZeroPostRequest ELSE last.req)
        /\ wf' = WorkflowStep(store, req, plan)
        /\ UNCHANGED <<inflight, built, par, cache, now, clog, running>>

\* the Lambda runtime hands one request to BlogHandler.HandleRequest
Handle(req, plan, unfailed) ==
    Handle_Done(req, plan,
                IF plan = {} THEN unfailed
                ELSE HandleRequest(store, plan, req.method, req.path, req.body))

\* GET /posts
ListPostsRequest ==
    \E req \in ListRequests : \E h \in {Unfailed(req)} : \E plan \in PlansOf(h) :
        Handle(req, plan, h)

\* GET /posts/{id}
GetPostRequest ==
    \E req \in GetRequests : \E h \in {Unfailed(req)} : \E plan \in PlansOf(h) :
        Handle(req, plan, h)

\* POST /posts
CreatePostRequest ==
    \E req \in CreateRequests : \E h \in {Unfailed(req)} : \E plan \in PlansOf(h) :
        Handle(req, plan, h)

\* PUT /posts/{id}
UpdatePostRequest ==
    \E req \in UpdateRequests : \E h \in {Unfailed(req)} : \E plan \in PlansOf(h) :
        Handle(req, plan, h)

\* DELETE /posts/{id}
DeletePostRequest ==
    \E req \in DeleteRequests : \E h \in {Unfailed(req)} : \E plan \in PlansOf(h) :
        Handle(req, plan, h)

\* a request that no case of the switch matches
UnroutedRequest ==
    \E req \in OtherRequests : \E h \in {Unfailed(req)} : \E plan \in PlansOf(h) :
        Handle(req, plan, h)

Next ==
    \/ ListPostsRequest
    \/ GetPostRequest
    \/ CreatePostRequest
    \/ UpdatePostRequest
    \/ DeletePostRequest
    \/ UnroutedRequest

Spec == Init /\ [][Next]_vars

(***************************************************************************)
(* State machine of the repository alone: a caller of S3Repository (the    *)
(* service, a test) runs one operation at a time                           *)
(***************************************************************************)
RepoPosts ==
    {Post(i, sHello, sWorld, tZero, tZero) : i \in Ids}
    \cup {Post(1, sHi, sThere, tZero, tSeed)}

\* the record of a repository operation: r is [err, post, store, calls], with
\* the posts of a listing, and arg is the post that was passed to the operation
RepoEntry(route, id, arg, r) ==
    LET h == Handled(route, id, PostRequest(arg.title, arg.content), FALSE,
                     SvcResult(r.err, r.post,
                               IF "posts" \in DOMAIN r THEN r.posts ELSE <<>>,
                               r.store, r.calls),
                     r.store, NoResponse)
        after == After(h)
    IN  [Entry(Request("", <<>>, EmptyText), h, Existed(h), r.store # store, after,
               IF after = "none" THEN ZeroPostRequest ELSE last.req)
           EXCEPT !.arg = arg]

RepoPlans(r) == {p \in SUBSET FailPointsOf(r.calls) : Cardinality(p) <= MaxFailures}

RepoStep(route, id, arg, r) ==
    /\ store' = r.store
    /\ last' = RepoEntry(route, id, arg, r)
    /\ wf' = 0
    /\ UNCHANGED <<inflight, built, par, cache, now, clog, running>>

RepoListPosts ==
    \E plan \in RepoPlans(S3Repository_ListPosts(store, {})) :
        LET l == S3Repository_ListPosts(store, plan)
        IN  RepoStep("repo.list", 0, ZeroPost,
                     [err |-> l.err, post |-> ZeroPost, posts |-> l.posts,
                      store |-> store, calls |-> l.calls])

RepoGetPost ==
    \E id \in Ids : \E plan \in RepoPlans(S3Repository_GetPost(store, {}, id)) :
        LET g == S3Repository_GetPost(store, plan, id)
        IN  RepoStep("repo.get", id, ZeroPost,
                     [err |-> g.err, post |-> g.post, store |-> store, calls |-> g.calls])

RepoCreatePost ==
    \E post \in RepoPosts : \E plan \in RepoPlans(S3Repository_CreatePost(store, {}, post)) :
        LET c == S3Repository_CreatePost(store, plan, post)
        IN  RepoStep("repo.create", post.id, post,
                     [err |-> c.err, post |-> post, store |-> c.store, calls |-> c.calls])

RepoUpdatePost ==
    \E id \in Ids, post \in RepoPosts :
        \E plan \in RepoPlans(S3Repository_UpdatePost(store, {}, id, post)) :
            LET u == S3Repository_UpdatePost(store, plan, id, post)
            IN  RepoStep("repo.update", id, post,
                         [err |-> u.err, post |-> u.post, store |-> u.store,
                          calls |-> u.calls])

RepoDeletePost ==
    \E id \in Ids : \E plan \in RepoPlans(S3Repository_DeletePost(store, {}, id)) :
        LET d == S3Repository_DeletePost(store, plan, id)
        IN  RepoStep("repo.delete", id, ZeroPost,
                     [err |-> d.err, post |-> ZeroPost, store |-> d.store,
                      calls |-> d.calls])

NextRepo ==
    \/ RepoListPosts
    \/ RepoGetPost
    \/ RepoCreatePost
    \/ RepoUpdatePost
    \/ RepoDeletePost

SpecRepo == Init /\ [][NextRepo]_vars

(***************************************************************************)
(* State machine of concurrent creates: each invocation of the Lambda runs *)
(* handleCreatePost on its own, and the calls the invocations make to the  *)
(* bucket interleave                                                       *)
(***************************************************************************)
ConcurrentBodies == {bHello, bHi, bBlankTitle}

\* the number of invocations that have written their post
Written == Cardinality({p \in Invocations : inflight[p].order > 0})

\* POST /posts arrives: handleCreatePost decodes the body and
\* BlogService.CreatePost validates the request
Arrive(p, body) ==
    LET u == UnmarshalPostRequest(body)
        v == validatePostRequest(u.req)
    IN  /\ inflight[p].pc = "idle"
        /\ inflight' = [inflight EXCEPT ![p] =
              CASE u.err # errNone ->
                      [@ EXCEPT !.pc = "done",
                                !.resp = BadRequest(<<"invalid", "request", "body">>)]
                [] v # errNone ->
                      [@ EXCEPT !.pc = "done", !.req = u.req,
                                !.resp = BadRequest(<<"invalid", "post", "request", ":">> \o v)]
                [] OTHER -> [@ EXCEPT !.pc = "list", !.req = u.req]]
        /\ UNCHANGED <<store, last, wf, built, par, cache, now, clog, running>>

\* generateNextID calls S3Repository.ListPosts, which lists the keys
ListKeys(p) ==
    /\ inflight[p].pc = "list"
    /\ inflight' = [inflight EXCEPT ![p] =
          [@ EXCEPT !.pc = "get", !.keys = ListObjectsV2(store, {}).contents,
                    !.listed = [posts |-> <<>>, calls |-> <<Call("list", <<>>, "ok")>>]]]
    /\ UNCHANGED <<store, last, wf, built, par, cache, now, clog, running>>

\* one round of the loop of S3Repository.ListPosts
FetchNext(p) ==
    /\ inflight[p].pc = "get" /\ inflight[p].keys # <<>>
    /\ inflight' = [inflight EXCEPT ![p] =
          [@ EXCEPT !.keys = Tail(@),
                    !.listed = ListPostsRound(@, Head(inflight[p].keys),
                                   getPostByKey(store, {}, Head(inflight[p].keys)))]]
    /\ UNCHANGED <<store, last, wf, built, par, cache, now, clog, running>>

\* the invocation has the result r of BlogService.CreatePost and responds
SaveNew_Done(p, r, resp) ==
    /\ r.post.id <= MaxId
    /\ store' = r.store
    /\ inflight' = [inflight EXCEPT ![p] =
          [@ EXCEPT !.pc = "done", !.post = r.post, !.resp = resp,
                    !.order = Written + 1]]
    /\ UNCHANGED <<last, wf, built, par, cache, now, clog, running>>

\* the rest of BlogService.CreatePost once r is known
SaveNew_Served(p, r) == SaveNew_Done(p, r, handleCreatePost_Served(inflight[p].req, r).resp)

\* the loop is over: generateNextID takes the next id, CreatePost saves the
\* post and handleCreatePost responds
SaveNew(p) ==
    /\ inflight[p].pc = "get" /\ inflight[p].keys = <<>>
    /\ SaveNew_Served(p, BlogService_CreatePost_WithID(store, {}, inflight[p].req,
              generateNextID_Listed([err |-> errNone] @@ inflight[p].listed)))

PostArrives == \E p \in Invocations : \E body \in ConcurrentBodies : Arrive(p, body)

KeysListed == \E p \in Invocations : ListKeys(p)

PostFetched == \E p \in Invocations : FetchNext(p)

PostSaved == \E p \in Invocations : SaveNew(p)

NextConcurrent ==
    \/ PostArrives
    \/ KeysListed
    \/ PostFetched
    \/ PostSaved

SpecConcurrent == Init /\ [][NextConcurrent]_vars

(***************************************************************************)
(* State machine of the response builder: each step calls one builder      *)
(***************************************************************************)
MaxListed == 2

\* the posts of a listing
ListedPosts == {Post(1, sHello, sWorld, tZero, tZero), Post(MaxId, sHi, sThere, tZero, tSeed)}

\* the payloads of Success and Created
BuilderData ==
    {PostValue(p) : p \in RepoPosts}
    \cup {PostsValue(ps) : ps \in UNION {[1..n -> ListedPosts] : n \in 0..MaxListed}}
    \cup {ChanValue, NaNValue}

\* the messages of the error builders
BuilderMessages ==
    {<<"invalid", "request", "body">>, <<"post", "not", "found">>,
     <<"failed", "to", "list", "posts">>, <<"say", "\"", "<", ">", "&">>, <<>>}

Built(builder, data, message, resp) ==
    [builder |-> builder, data |-> data, message |-> message, resp |-> resp]

BuildSuccess ==
    \E data \in BuilderData :
        /\ built' = Built("Success", data, <<>>, Success(data))
        /\ UNCHANGED <<store, last, wf, inflight, par, cache, now, clog, running>>

BuildCreated ==
    \E data \in BuilderData :
        /\ built' = Built("Created", data, <<>>, Created(data))
        /\ UNCHANGED <<store, last, wf, inflight, par, cache, now, clog, running>>

BuildNoContent ==
    /\ built' = Built("NoContent", NoValue, <<>>, NoContent)
    /\ UNCHANGED <<store, last, wf, inflight, par, cache, now, clog, running>>

BuildBadRequest ==
    \E message \in BuilderMessages :
        /\ built' = Built("BadRequest", NoValue, message, BadRequest(message))
        /\ UNCHANGED <<store, last, wf, inflight, par, cache, now, clog, running>>

BuildNotFound ==
    \E message \in BuilderMessages :
        /\ built' = Built("NotFound", NoValue, message, NotFound(message))
        /\ UNCHANGED <<store, last, wf, inflight, par, cache, now, clog, running>>

BuildInternalServerError ==
    \E message \in BuilderMessages :
        /\ built' = Built("InternalServerError", NoValue, message,
                          InternalServerError(message))
        /\ UNCHANGED <<store, last, wf, inflight, par, cache, now, clog, running>>

NextResponse ==
    \/ BuildSuccess
    \/ BuildCreated
    \/ BuildNoContent
    \/ BuildBadRequest
    \/ BuildNotFound
    \/ BuildInternalServerError

SpecResponse == Init /\ [][NextResponse]_vars

(***************************************************************************)
(* The single-file CRUD handler (lambda/cmd/blog/main.go)                  *)
(***************************************************************************)
\* type Post struct { ID int; Title string; Content string }
MainPost(id, title, content) == [id |-> id, title |-> title, content |-> content]

ZeroMainPost == MainPost(0, <<>>, <<>>)

\* json.Marshal(p) of a main.Post
MarshalMainPostMembers(p) ==
    << Member("id", "num", Itoa(p.id)),
       Member("title", "str", Escape(p.title)),
       Member("content", "str", Escape(p.content)) >>

MarshalMainPost(p) == Obj(MarshalMainPostMembers(p))

\* decoding one member into a main.Post: r is [err, post]
DecodeMainPostMember(r, m) ==
    CASE m.t = "null" -> r
      [] m.k = "id" ->
            IF m.t = "num" /\ IsJSONInt(m.v)
            THEN [r EXCEPT !.post.id = Atoi(m.v).n]
            ELSE [r EXCEPT !.err = IF r.err = errNone THEN errType ELSE r.err]
      [] m.k \in {"title", "content"} ->
            IF m.t = "str"
            THEN [r EXCEPT !.post[m.k] = Unescape(m.v)]
            ELSE [r EXCEPT !.err = IF r.err = errNone THEN errType ELSE r.err]
      [] OTHER -> r

RECURSIVE DecodeMainPostMembers(_, _)
DecodeMainPostMembers(r, ms) ==
    IF ms = <<>> THEN r
    ELSE DecodeMainPostMembers(DecodeMainPostMember(r, Head(ms)), Tail(ms))

\* json.Unmarshal(b, &p) into a zero main.Post
UnmarshalMainPost(text) ==
    LET syn == checkValid(text)
    IN  CASE syn # errNone -> [err |-> syn, post |-> ZeroMainPost]
          [] text.kind = "null" -> [err |-> errNone, post |-> ZeroMainPost]
          [] text.kind = "object" ->
                DecodeMainPostMembers([err |-> errNone, post |-> ZeroMainPost], text.members)
          [] OTHER -> [err |-> errType, post |-> ZeroMainPost]

\* jsonOK(posts) of a non-nil slice of main.Post
jsonOK(posts) ==
    Response(200, Arr([i \in 1..Len(posts) |-> MarshalMainPostMembers(posts[i])]),
             JSONHeaders)

\* errorJSON(code, msg)
errorJSON(code, msg) == Response(code, MarshalError(msg), JSONHeaders)

\* what handle did: the branch taken, the id and post it parsed, the posts it
\* listed, its calls to the bucket and its response
MainHandled(route, id, post, posts, st, calls, resp) ==
    Handled(route, id, PostRequest(post.title, post.content), FALSE,
            SvcResult(errNone, post, posts, st, calls), st, resp)

\* one round of the loop of the GET /posts branch: r is [posts, calls], out
\* the output of GetObject for the key and dec the decoded body
MainListRound(r, key, out, dec) ==
    CASE ~HasSuffix(key, <<".json">>) -> r
      [] out.err # errNone \/ dec.err # errNone ->
            [r EXCEPT !.calls = Append(@, Call("get", key, GetResult(out, dec)))]
      [] OTHER -> [posts |-> Append(r.posts, dec.post),
                   calls |-> Append(r.calls, Call("get", key, "ok"))]

MainListFetched(r, key, out) == MainListRound(r, key, out, UnmarshalMainPost(out.body))

RECURSIVE MainListLoop(_, _, _, _)
MainListLoop(st, plan, contents, r) ==
    IF contents = <<>> THEN r
    ELSE MainListLoop(st, plan, Tail(contents),
                      MainListFetched(r, Head(contents),
                                      GetObject(st, plan, Head(contents))))

MainListed(st, r) == MainHandled("main.list", 0, ZeroMainPost, r.posts, st, r.calls,
                                jsonOK(r.posts))

\* the branch of GET /posts once ListObjectsV2 has returned out
handle_List_Out(st, plan, out) ==
    IF out.err # errNone
    THEN MainHandled("main.list", 0, ZeroMainPost, <<>>, st,
                     <<Call("list", <<>>, "failed")>>,
                     errorJSON(500, <<"list", "failed">>))
    ELSE MainListed(st, MainListLoop(st, plan, out.contents,
                        [posts |-> <<>>, calls |-> <<Call("list", <<>>, "ok")>>]))

\* handle: GET /posts
handle_List(st, plan) == handle_List_Out(st, plan, ListObjectsV2(st, plan))

\* the branch of GET /posts/{id} once GetObject has returned po
handle_Get_Out(st, id, po) ==
    IF po.err # errNone
    THEN MainHandled("main.get", id, ZeroMainPost, <<>>, st,
                     <<Call("get", PostKey(id), IF po.noSuchKey THEN "nokey" ELSE "failed")>>,
                     errorJSON(404, <<"not", "found">>))
    ELSE MainHandled("main.get", id, ZeroMainPost, <<>>, st,
                     <<Call("get", PostKey(id), "ok")>>,
                     Response(200, po.body, JSONHeaders))

\* handle: GET /posts/{id}
handle_Get(st, plan, id) ==
    IF id.err
    THEN MainHandled("main.get", 0, ZeroMainPost, <<>>, st, <<>>,
                     errorJSON(400, <<"invalid", "id:", "must", "be", "a", "number">>))
    ELSE handle_Get_Out(st, id.n, GetObject(st, plan, PostKey(id.n)))

\* the branch of POST /posts once PutObject has returned put
handle_Post_Out(st, p, put) ==
    IF put.err # errNone
    THEN MainHandled("main.post", p.id, p, <<>>, st,
                     <<Call("put", PostKey(p.id), "failed")>>,
                     errorJSON(500, <<"create", "failed">>))
    ELSE MainHandled("main.post", p.id, p, <<>>, put.store,
                     <<Call("put", PostKey(p.id), "ok")>>,
                     Response(200, MarshalMainPost(p), JSONHeaders))

\* handle: POST /posts
handle_Post(st, plan, u) ==
    IF u.err # errNone \/ u.post.id = 0
    THEN MainHandled("main.post", 0, ZeroMainPost, <<>>, st, <<>>,
                     errorJSON(400, <<"invalid", "body:", "require", "id,title,content">>))
    ELSE handle_Post_Out(st, u.post, PutObject(st, plan, PostKey(u.post.id),
                                               MarshalMainPost(u.post)))

\* the branch of PUT /posts/{id} once DeleteObject has returned del
handle_Put_Out(st, id, del) ==
    IF del.err # errNone
    THEN MainHandled("main.put", id, ZeroMainPost, <<>>, st,
                     <<Call("delete", PostKey(id), "failed")>>,
                     errorJSON(500, <<"delete", "failed">>))
    ELSE MainHandled("main.put", id, ZeroMainPost, <<>>, del.store,
                     <<Call("delete", PostKey(id), "ok")>>,
                     Response(204, EmptyText, {}))

\* handle: PUT /posts/{id}; the branch never reads the body and calls
\* DeleteObject
handle_Put(st, plan, id) ==
    IF id.err
    THEN MainHandled("main.put", 0, ZeroMainPost, <<>>, st, <<>>,
                     errorJSON(400, <<"invalid", "id:", "must", "be", "a", "number">>))
    ELSE handle_Put_Out(st, id.n, DeleteObject(st, plan, PostKey(id.n)))

\* the branch of handle that a request takes; there is none for DELETE
MainRoute(method, path) ==
    CASE method = "GET" /\ path = pPosts -> "main.list"
      [] method = "GET" /\ HasPrefix(path, pPostsSlash) -> "main.get"
      [] method = "POST" /\ path = pPosts -> "main.post"
      [] method = "PUT" /\ HasPrefix(path, pPostsSlash) -> "main.put"
      [] OTHER -> "main.other"

\* handle
handle(st, plan, method, path, body) ==
    CASE MainRoute(method, path) = "main.list" -> handle_List(st, plan)
      [] MainRoute(method, path) = "main.get" ->
            handle_Get(st, plan, Atoi(TrimPrefix(path, pPostsSlash)))
      [] MainRoute(method, path) = "main.post" ->
            handle_Post(st, plan, UnmarshalMainPost(body))
      [] MainRoute(method, path) = "main.put" ->
            handle_Put(st, plan, Atoi(TrimPrefix(path, pPostsSlash)))
      [] OTHER -> MainHandled("main.other", 0, ZeroMainPost, <<>>, st, <<>>,
                              errorJSON(404, <<"not", "found">>))

(***************************************************************************)
(* State machine of the single-file handler: one request at a time         *)
(***************************************************************************)
MainBody(id, title, content) ==
    Obj(<<Member("id", "num", Itoa(id)), StrMember("title", title),
          StrMember("content", content)>>)

MainBodies ==
    {MainBody(i, sHello, sWorld) : i \in Ids \cup {0}}
    \cup {MainBody(1, sHi, sThere), bHello, bNumberTitle, Malformed, EmptyText}

MainRequests ==
    {Request(m, p, EmptyText) : m \in Methods, p \in Paths}
    \cup {Request("POST", pPosts, b) : b \in MainBodies}
    \cup {Request("PUT", PostPath(Itoa(i)), b) : i \in Ids, b \in {bHello, MainBody(1, sHi, sThere)}}

MainRequestsOf(route) == {req \in MainRequests : MainRoute(req.method, req.path) = route}

MainPlans(req) ==
    {p \in SUBSET FailPointsOf(handle(store, {}, req.method, req.path, req.body).calls) :
        Cardinality(p) <= MaxFailures}

\* the request is handled with the result h and the bucket follows
MainHandle_Done(req, h) ==
    /\ store' = h.store
    /\ last' = Entry(req, h, Existed(h), h.store # store, "none", ZeroPostRequest)
    /\ UNCHANGED <<wf, inflight, built, par, cache, now, clog, running>>

\* the Lambda runtime hands one request to handle
MainHandle(req, plan) ==
    MainHandle_Done(req, handle(store, plan, req.method, req.path, req.body))

MainListRequest ==
    \E req \in MainRequestsOf("main.list") : \E plan \in MainPlans(req) : MainHandle(req, plan)

MainGetRequest ==
    \E req \in MainRequestsOf("main.get") : \E plan \in MainPlans(req) : MainHandle(req, plan)

MainPostRequest ==
    \E req \in MainRequestsOf("main.post") : \E plan \in MainPlans(req) : MainHandle(req, plan)

MainPutRequest ==
    \E req \in MainRequestsOf("main.put") : \E plan \in MainPlans(req) : MainHandle(req, plan)

\* a request that no branch matches, DELETE /posts/{id} among them
MainOtherRequest ==
    \E req \in MainRequestsOf("main.other") : \E plan \in MainPlans(req) : MainHandle(req, plan)

NextMain ==
    \/ MainListRequest
    \/ MainGetRequest
    \/ MainPostRequest
    \/ MainPutRequest
    \/ MainOtherRequest

SpecMain == Init /\ [][NextMain]_vars

(***************************************************************************)
(* State machine of the parallel ListPosts: GET /posts is served by the    *)
(* variant of S3Repository.ListPosts that fetches every listed key in a    *)
(* goroutine of its own; the steps of the goroutines and of the loop that  *)
(* starts them interleave                                                  *)
(***************************************************************************)
\* mutant: the accumulator is not protected
MutexFree_Unprotected(mu) == TRUE

\* sync.Mutex: Lock returns when no goroutine holds the mutex
MutexFree(mu) == mu = <<>>

\* mutant: the result is returned without waiting for the goroutines
WaitReturns_NoWait(wg) == TRUE

\* sync.WaitGroup: Wait returns when the counter is zero
WaitReturns(wg) == wg = 0

ParPlans ==
    {p \in SUBSET FailPointsOf(S3Repository_ListPosts(store, {}).calls) :
        Cardinality(p) <= MaxFailures}

\* the response of handleListPosts for the result l of ListPosts
ParResponse(l) == handleListPosts_Served(BlogService_ListPosts_Listed(store, l)).resp

\* the result of ListPosts reaches the handler, which responds
ParReturned(p, l) ==
    [p EXCEPT !.pc = "done", !.err = l.err, !.resp = ParResponse(l),
              !.responses = @ + 1]

\* ListPosts is called and ListObjectsV2 has returned out
ParListed(plan, out) ==
    /\ par' = IF out.err # errNone
              THEN ParReturned([ParIdle EXCEPT !.plan = plan],
                               [err |-> <<"failed", "to", "list", "posts", ":">> \o out.err,
                                posts |-> <<>>, calls |-> <<>>])
              ELSE [ParIdle EXCEPT !.pc = "loop", !.plan = plan,
                                   !.contents = out.contents]
    /\ UNCHANGED <<store, last, wf, inflight, built, cache, now, clog, running>>

\* GET /posts arrives and ListPosts lists the keys
ParList ==
    \E plan \in ParPlans :
        /\ par.pc \in {"idle", "done"}
        /\ ParListed(plan, ListObjectsV2(store, plan))

\* one round of the loop over out.Contents: wg.Add(1) and go func(key)
ParSpawn ==
    /\ par.pc = "loop" /\ par.contents # <<>>
    /\ par' = IF ~HasSuffix(Head(par.contents), <<".json">>)
              THEN [par EXCEPT !.contents = Tail(@)]
              ELSE [par EXCEPT !.contents = Tail(@), !.wg = @ + 1,
                               !.g[Head(par.contents)].pc = "run"]
    /\ UNCHANGED <<store, last, wf, inflight, built, cache, now, clog, running>>

\* the goroutine of key k has the result got of getPostByKey; a failure is
\* logged and the deferred wg.Done runs
GoFetched(k, got) ==
    /\ par' = IF got.err # errNone
              THEN [par EXCEPT !.g[k].pc = "done", !.wg = @ - 1]
              ELSE [par EXCEPT !.g[k].pc = "fetched", !.g[k].post = got.post]
    /\ UNCHANGED <<store, last, wf, inflight, built, cache, now, clog, running>>

\* the goroutine of a key calls getPostByKey
GoFetch ==
    \E k \in Keys :
        /\ par.g[k].pc = "run"
        /\ GoFetched(k, getPostByKey(store, par.plan, k))

\* mu.Lock() returns and append reads the slice
GoLock ==
    \E k \in Keys :
        /\ par.g[k].pc = "fetched"
        /\ MutexFree(par.mu)
        /\ par' = [par EXCEPT !.g[k].pc = "locked", !.g[k].tmp = par.posts, !.mu = k]
        /\ UNCHANGED <<store, last, wf, inflight, built, cache, now, clog, running>>

\* append writes the slice, then mu.Unlock() and the deferred wg.Done()
GoAppend ==
    \E k \in Keys :
        /\ par.g[k].pc = "locked"
        /\ par' = [par EXCEPT !.g[k].pc = "done", !.wg = @ - 1,
                              !.posts = Append(par.g[k].tmp, par.g[k].post),
                              !.mu = IF @ = k THEN <<>> ELSE @]
        /\ UNCHANGED <<store, last, wf, inflight, built, cache, now, clog, running>>

\* the loop is over, wg.Wait() returns and ListPosts returns the posts
ParReturn ==
    /\ par.pc = "loop" /\ par.contents = <<>>
    /\ WaitReturns(par.wg)
    /\ par' = ParReturned(par, [err |-> errNone, posts |-> par.posts, calls |-> <<>>])
    /\ UNCHANGED <<store, last, wf, inflight, built, cache, now, clog, running>>

\* between two listings a post is written to the bucket
ParCreate ==
    \E post \in RepoPosts :
        /\ par.pc \in {"idle", "done"}
        /\ store' = S3Repository_CreatePost(store, {}, post).store
        /\ par' = ParIdle
        /\ UNCHANGED <<last, wf, inflight, built, cache, now, clog, running>>

NextParallel ==
    \/ ParList
    \/ ParSpawn
    \/ GoFetch
    \/ GoLock
    \/ GoAppend
    \/ ParReturn
    \/ ParCreate

SpecParallel == Init /\ [][NextParallel]_vars

\* every call to the bucket returns and every goroutine that can run does
SpecParallelFair ==
    /\ SpecParallel
    /\ WF_vars(ParSpawn) /\ WF_vars(GoFetch) /\ WF_vars(GoLock)
    /\ WF_vars(GoAppend) /\ WF_vars(ParReturn)

(***************************************************************************)
(* State machine of the cache alone: a caller runs one operation of        *)
(* MemoryCache at a time, the cleanup goroutine runs a round of its loop,  *)
(* and time passes                                                         *)
(***************************************************************************)
\* the keys and the data of the callers
TestKeys == {ListCacheKey, PostCacheKey(1)}

CacheData == {PostValue(Post(1, sHello, sWorld, tZero, tZero)), PostsValue(<<>>)}

\* the record of an operation of the cache
CacheOp(op, key, found, data, sets) ==
    [NoCacheOp EXCEPT !.op = op, !.key = key, !.found = found, !.data = data,
                      !.at = now, !.sets = sets]

CacheSet ==
    /\ \E key \in TestKeys : \E data \in CacheData :
        /\ cache' = MemoryCache_Set(cache, now, key, data)
        /\ clog' = CacheOp("set", key, FALSE, data,
                           [clog.sets EXCEPT ![key] = [set |-> TRUE, data |-> data,
                                                       at |-> now]])
    /\ UNCHANGED <<store, last, wf, inflight, built, par, now, running>>

CacheGet ==
    /\ \E key \in TestKeys :
        clog' = CacheOp("get", key, MemoryCache_Get(cache, now, key).found,
                        MemoryCache_Get(cache, now, key).data, clog.sets)
    /\ UNCHANGED <<store, last, wf, inflight, built, par, cache, now, running>>

CacheDelete ==
    /\ \E key \in TestKeys :
        /\ cache' = MemoryCache_Delete(cache, key)
        /\ clog' = CacheOp("delete", key, FALSE, NoData,
                           [clog.sets EXCEPT ![key] = NeverSet])
    /\ UNCHANGED <<store, last, wf, inflight, built, par, now, running>>

CacheClear ==
    /\ cache' = MemoryCache_Clear(cache)
    /\ clog' = CacheOp("clear", <<>>, FALSE, NoData, [k \in CacheKeys |-> NeverSet])
    /\ UNCHANGED <<store, last, wf, inflight, built, par, now, running>>

\* the ticker of cleanup fires
CacheCleanup ==
    /\ cache' = MemoryCache_cleanup(cache, now)
    /\ clog' = CacheOp("cleanup", <<>>, FALSE, NoData, clog.sets)
    /\ UNCHANGED <<store, last, wf, inflight, built, par, now, running>>

\* time passes
Tick ==
    /\ now < MaxNow
    /\ now' = now + 1
    /\ UNCHANGED <<store, last, wf, inflight, built, par, cache, clog, running>>

NextCache ==
    \/ CacheSet
    \/ CacheGet
    \/ CacheDelete
    \/ CacheClear
    \/ CacheCleanup
    \/ Tick

SpecCache == Init /\ [][NextCache]_vars

(***************************************************************************)
(* BlogService with the cache (lambda/internal/service/blog.go, updated)   *)
(***************************************************************************)
CachedResult(r, c, hit) ==
    [err |-> r.err, post |-> r.post, posts |-> r.posts, store |-> r.store,
     calls |-> r.calls, cache |-> c, hit |-> hit]

\* BlogService.invalidatePostCache
invalidatePostCache(c, id) == MemoryCache_Delete(c, PostCacheKey(id))

\* BlogService.invalidateListCache
invalidateListCache(c) == MemoryCache_Delete(c, ListCacheKey)

\* BlogService.ListPosts once the cache has answered cached and, on a miss, the
\* repository has returned l
CachedBlogService_ListPosts_Listed(st, c, t, cached, l) ==
    CASE cached.found ->
            CachedResult(SvcResult(errNone, ZeroPost, cached.data.posts, st, <<>>), c, TRUE)
      [] l.err # errNone ->
            CachedResult(BlogService_ListPosts_Listed(st, l), c, FALSE)
      [] OTHER ->
            CachedResult(BlogService_ListPosts_Listed(st, l),
                         MemoryCache_Set(c, t, ListCacheKey, PostsValue(l.posts)), FALSE)

\* BlogService.ListPosts
CachedBlogService_ListPosts(st, c, t, plan) ==
    CachedBlogService_ListPosts_Listed(st, c, t, MemoryCache_Get(c, t, ListCacheKey),
                                       S3Repository_ListPosts(st, plan))

\* BlogService.GetPost once the cache has answered cached and, on a miss, the
\* repository has returned g
CachedBlogService_GetPost_Fetched(st, c, t, id, cached, g) ==
    CASE id <= 0 -> CachedResult(BlogService_GetPost(st, {}, id), c, FALSE)
      [] cached.found ->
            CachedResult(SvcResult(errNone, cached.data.post, <<>>, st, <<>>), c, TRUE)
      [] g.err # errNone ->
            CachedResult(BlogService_GetPost_Fetched(st, g), c, FALSE)
      [] OTHER ->
            CachedResult(BlogService_GetPost_Fetched(st, g),
                         MemoryCache_Set(c, t, PostCacheKey(id), PostValue(g.post)), FALSE)

\* BlogService.GetPost
CachedBlogService_GetPost(st, c, t, plan, id) ==
    CachedBlogService_GetPost_Fetched(st, c, t, id,
                                      MemoryCache_Get(c, t, PostCacheKey(id)),
                                      S3Repository_GetPost(st, plan, id))

\* BlogService.CreatePost once the post was validated, numbered and saved with
\* the result r: the list is invalidated after a successful save
CachedBlogService_CreatePost_Saved(c, r) ==
    IF r.err # errNone THEN CachedResult(r, c, FALSE)
    ELSE CachedResult(r, invalidateListCache(c), FALSE)

\* BlogService.CreatePost
CachedBlogService_CreatePost(st, c, plan, req) ==
    CachedBlogService_CreatePost_Saved(c, BlogService_CreatePost(st, plan, req))

\* BlogService.UpdatePost and DeletePost once the repository was called with
\* the result r: the post and the list are invalidated after a success
CachedBlogService_Invalidated(c, id, r) ==
    IF r.err # errNone THEN CachedResult(r, c, FALSE)
    ELSE CachedResult(r, invalidateListCache(invalidatePostCache(c, id)), FALSE)

\* BlogService.UpdatePost
CachedBlogService_UpdatePost(st, c, plan, id, req) ==
    CachedBlogService_Invalidated(c, id, BlogService_UpdatePost(st, plan, id, req))

\* BlogService.DeletePost
CachedBlogService_DeletePost(st, c, plan, id) ==
    CachedBlogService_Invalidated(c, id, BlogService_DeletePost(st, plan, id))

(***************************************************************************)
(* State machine of the cached service: one instance, one call at a time,  *)
(* and time passes                                                         *)
(***************************************************************************)
CachedCreates == {PostRequest(sHello, sWorld)}

CachedUpdates == {PostRequest(sHi, sThere)}

\* the ids the callers ask for
CachedIds == {1}

\* the record of a call of the service: whether the cache answered, and the
\* error
ServiceOp(op, id, r) ==
    [NoCacheOp EXCEPT !.op = op,
                      !.key = IF op \in {"list", "create"} THEN ListCacheKey
                              ELSE PostCacheKey(id),
                      !.found = r.hit, !.err = r.err]

CachedStep(op, id, r) ==
    /\ store' = r.store
    /\ cache' = r.cache
    /\ clog' = ServiceOp(op, id, r)
    /\ UNCHANGED <<last, wf, inflight, built, par, now, running>>

CachedListPosts ==
    \E plan \in RepoPlans(CachedBlogService_ListPosts(store, cache, now, {})) :
        CachedStep("list", 0, CachedBlogService_ListPosts(store, cache, now, plan))

CachedGetPost ==
    \E id \in CachedIds :
        \E plan \in RepoPlans(CachedBlogService_GetPost(store, cache, now, {}, id)) :
            CachedStep("get", id, CachedBlogService_GetPost(store, cache, now, plan, id))

CachedCreatePost ==
    \E req \in CachedCreates :
        \E plan \in RepoPlans(CachedBlogService_CreatePost(store, cache, {}, req)) :
            CachedStep("create", 0, CachedBlogService_CreatePost(store, cache, plan, req))

CachedUpdatePost ==
    \E id \in CachedIds : \E req \in CachedUpdates :
        \E plan \in RepoPlans(CachedBlogService_UpdatePost(store, cache, {}, id, req)) :
            CachedStep("update", id,
                       CachedBlogService_UpdatePost(store, cache, plan, id, req))

CachedDeletePost ==
    \E id \in CachedIds :
        \E plan \in RepoPlans(CachedBlogService_DeletePost(store, cache, {}, id)) :
            CachedStep("delete", id, CachedBlogService_DeletePost(store, cache, plan, id))

NextCached ==
    \/ CachedListPosts
    \/ CachedGetPost
    \/ CachedCreatePost
    \/ CachedUpdatePost
    \/ CachedDeletePost
    \/ Tick

SpecCached == Init /\ [][NextCached]_vars

(***************************************************************************)
(* State machine of the cached service under concurrent requests: one      *)
(* instance serves a reading call (GetPost or ListPosts) and a writing     *)
(* call (UpdatePost or DeletePost) at the same time.  A call is a step     *)
(* for each of its accesses to the cache, which the RWMutex makes atomic,  *)
(* and a step for its calls of the repository.                             *)
(***************************************************************************)
\* the key of the cache a reading call uses
ReadKey(op, id) == IF op = "list" THEN ListCacheKey ELSE PostCacheKey(id)

\* what a reading call would fetch from storage now
Fresh(op, id) ==
    CASE op = "list" -> PostsValue(S3Repository_ListPosts(store, {}).posts)
      [] S3Repository_GetPost(store, {}, id).err # errNone -> NoData
      [] OTHER -> PostValue(S3Repository_GetPost(store, {}, id).post)

\* the record of a reading call that returned data: clean says that it began
\* after a writing call had returned and that no writing call ran meanwhile
ReadOp(op, id, hit, data, err, clean) ==
    [NoCacheOp EXCEPT !.op = op, !.key = ReadKey(op, id), !.found = hit,
                      !.data = data, !.err = err, !.clean = clean,
                      !.fresh = Fresh(op, id)]

\* GetPost or ListPosts begins: s.cache.Get answers, and a hit is returned
ReadStart ==
    /\ running.reader.pc = "idle"
    /\ \E op \in {"get", "list"} : \E id \in CachedIds :
        LET cached == MemoryCache_Get(cache, now, ReadKey(op, id))
            clean == running.written /\ running.writer.pc = "idle"
        IN  IF cached.found
            THEN /\ clog' = ReadOp(op, id, TRUE, cached.data, errNone, clean)
                 /\ UNCHANGED running
            ELSE /\ running' = [running EXCEPT !.reader =
                                    [pc |-> "missed", op |-> op, id |-> id,
                                     got |-> NoData, clean |-> clean]]
                 /\ UNCHANGED clog
    /\ UNCHANGED <<store, last, wf, inflight, built, par, cache, now>>

\* after a miss the repository is asked; its error is returned
ReadFetch ==
    /\ running.reader.pc = "missed"
    /\ LET rd == running.reader
           r == IF rd.op = "list"
                THEN BlogService_ListPosts(store, {})
                ELSE BlogService_GetPost(store, {}, rd.id)
       IN  IF r.err # errNone
           THEN /\ running' = [running EXCEPT !.reader = NoCall]
                /\ clog' = ReadOp(rd.op, rd.id, FALSE, NoData, r.err, FALSE)
           ELSE /\ running' = [running EXCEPT !.reader.pc = "fetched",
                                  !.reader.got = IF rd.op = "list"
                                                 THEN PostsValue(r.posts)
                                                 ELSE PostValue(r.post)]
                /\ UNCHANGED clog
    /\ UNCHANGED <<store, last, wf, inflight, built, par, cache, now>>

\* s.cache.Set stores what the repository returned, and the call returns it
ReadInstall ==
    /\ running.reader.pc = "fetched"
    /\ LET rd == running.reader
       IN  /\ cache' = MemoryCache_Set(cache, now, ReadKey(rd.op, rd.id), rd.got)
           /\ clog' = ReadOp(rd.op, rd.id, FALSE, rd.got, errNone, rd.clean)
    /\ running' = [running EXCEPT !.reader = NoCall]
    /\ UNCHANGED <<store, last, wf, inflight, built, par, now>>

\* UpdatePost or DeletePost up to the return of the repository (a call that
\* returns an error here changes nothing): a reading call that is running is no
\* longer clean
WriteStore ==
    /\ running.writer.pc = "idle"
    /\ \E op \in {"update", "delete"} : \E id \in CachedIds : \E req \in CachedUpdates :
        LET r == IF op = "update"
                 THEN BlogService_UpdatePost(store, {}, id, req)
                 ELSE BlogService_DeletePost(store, {}, id)
        IN  /\ r.err = errNone
            /\ store' = r.store
            /\ running' = [running EXCEPT !.writer = [NoCall EXCEPT !.pc = "stored",
                                                                    !.op = op, !.id = id],
                                          !.reader.clean = FALSE]
    /\ UNCHANGED <<last, wf, inflight, built, par, cache, now, clog>>

\* s.invalidatePostCache(id)
WriteInvalidatePost ==
    /\ running.writer.pc = "stored"
    /\ cache' = invalidatePostCache(cache, running.writer.id)
    /\ running' = [running EXCEPT !.writer.pc = "postInvalidated"]
    /\ UNCHANGED <<store, last, wf, inflight, built, par, now, clog>>

\* s.invalidateListCache(), after which the call returns
WriteInvalidateList ==
    /\ running.writer.pc = "postInvalidated"
    /\ cache' = invalidateListCache(cache)
    /\ running' = [running EXCEPT !.writer = NoCall, !.written = TRUE]
    /\ UNCHANGED <<store, last, wf, inflight, built, par, now, clog>>

NextCachedConcurrent ==
    \/ ReadStart
    \/ ReadFetch
    \/ ReadInstall
    \/ WriteStore
    \/ WriteInvalidatePost
    \/ WriteInvalidateList
    \/ Tick

SpecCachedConcurrent == Init /\ [][NextCachedConcurrent]_vars

(***************************************************************************)
(* Properties                                                              *)
(***************************************************************************)
\* no backend call of the last operation failed for a reason other than a
\* missing key
NoBackendFailure == \A i \in 1..Len(last.calls) : last.calls[i].res # "failed"

ErrorBody(message) == MarshalError(message)

\* C1: a request with non-blank title and content that CreatePost stored,
\* read back at once by GetPost(returned id) without a backend failure, comes
\* back with the title and the content of the request.
C1_CreateThenGet ==
    (last.route = "get" /\ last.after = "create" /\ NoBackendFailure)
        => /\ last.svcErr = errNone
           /\ last.post.title = last.expect.title
           /\ last.post.content = last.expect.content

C1_Witness ==
    /\ last.route = "get" /\ last.after = "create" /\ NoBackendFailure
    /\ last.expect.title = sHi
    /\ last.post.title = sHi

\* C2: a post that UpdatePost(id, req) rewrote, read back at once by
\* GetPost(id) without a backend failure, has the title and the content of
\* the request and the id of the path.
C2_UpdateThenGet ==
    (last.route = "get" /\ last.after = "update" /\ NoBackendFailure)
        => /\ last.svcErr = errNone
           /\ last.post.title = last.expect.title
           /\ last.post.content = last.expect.content
           /\ last.post.id = last.id

\* the post of key posts/<MaxId>.json, which carried the id 1, is read back
\* with the id of its key after an update
C2_Witness ==
    /\ last.route = "get" /\ last.after = "update" /\ NoBackendFailure
    /\ last.id = MaxId /\ last.post.id = MaxId
    /\ last.post.title = sHi
    /\ store[HelloKey] = Absent /\ store[PostKey(1)] = HelloObject

\* C3: once S3Repository.DeletePost(id) has returned nil, the next
\* GetPost(id), its own GetObject not failing, reports "post not found".
C3_DeleteThenGetNotFound ==
    (last.route = "repo.get" /\ last.after = "repo.delete" /\ NoBackendFailure)
        => last.svcErr = <<"post", "not", "found">>

\* C4: from an empty bucket and without backend failures, the workflow POST,
\* GET list, GET, PUT, DELETE, GET answers 201 with the post of id 1, 200
\* with one post, 200, 200 with the updated post, 204 with an empty body, 404.
C4_FullWorkflow ==
    /\ wf = 1 => /\ last.resp.status = 201
                 /\ last.resp.body = MarshalPost(Post(1, sHello, sWorld, tZero, tZero))
    /\ wf = 2 => /\ last.resp.status = 200
                 /\ last.resp.body.kind = "array"
                 /\ Len(last.resp.body.items) = 1
                 /\ UnmarshalPost(Obj(last.resp.body.items[1])).post.id = 1
    /\ wf = 3 => /\ last.resp.status = 200
                 /\ UnmarshalPost(last.resp.body).post.title = sHello
    /\ wf = 4 => /\ last.resp.status = 200
                 /\ last.resp.body = MarshalPost(Post(1, sHi, sThere, tZero, tZero))
    /\ wf = 5 => /\ last.resp.status = 204
                 /\ last.resp.body = EmptyText
    /\ wf = 6 => last.resp.status = 404

C4_Witness == wf = 6 /\ last.resp.status = 404 /\ store = EmptyStore

\* the route the claim gives a method and a path
ExpectedRoute(method, path) ==
    CASE method = "GET" /\ path = pPosts -> "list"
      [] method = "POST" /\ path = pPosts -> "create"
      [] method = "GET" /\ HasPrefix(path, pPostsSlash) -> "get"
      [] method = "PUT" /\ HasPrefix(path, pPostsSlash) -> "update"
      [] method = "DELETE" /\ HasPrefix(path, pPostsSlash) -> "delete"
      [] OTHER -> "none"

\* C5: HandleRequest takes every method and path to the one route the table
\* gives it; a pair outside the table gets 404 {"error":"route not found"}
\* without a call of the service or the repository; no pair matches two cases.
C5_Routing ==
    last.method # "" =>
        /\ last.route = ExpectedRoute(last.method, last.path)
        /\ Cardinality({r \in Routes : Matches(r, last.method, last.path)}) <= 1
        /\ last.route = "none" =>
              /\ last.resp = Response(404, ErrorBody(<<"route", "not", "found">>), JSONHeaders)
              /\ ~last.svcCalled
              /\ last.calls = <<>>
              /\ ~last.changed

C5_Witness ==
    /\ last.method = "POST" /\ last.path = PostPath(<<"1">>)
    /\ last.route = "none" /\ last.resp.status = 404

\* the text is a decimal integer: an optional sign and at least one digit
IsDecimalInteger(text) ==
    LET ds == IF text # <<>> /\ Head(text) \in {"+", "-"} THEN Tail(text) ELSE text
    IN  ds # <<>> /\ \A i \in 1..Len(ds) : ds[i] \in {Digits[d] : d \in 1..10}

IdText(path) == SubSeq(path, Len(pPostsSlash) + 1, Len(path))

OnPost == last.method \in {"GET", "PUT", "DELETE"} /\ HasPrefix(last.path, pPostsSlash)

\* C6: GET, PUT and DELETE under /posts/ with a text after the prefix that
\* is no decimal integer answer 400 {"error":"invalid post ID"} and call
\* neither the service nor the repository.
C6_InvalidId ==
    (OnPost /\ ~IsDecimalInteger(IdText(last.path)))
        => /\ last.resp = Response(400, ErrorBody(<<"invalid", "post", "ID">>), JSONHeaders)
           /\ ~last.svcCalled
           /\ last.calls = <<>>

C6_Witness ==
    /\ last.method = "PUT" /\ last.path = pExtra
    /\ last.resp.status = 400

\* C7: GET, PUT and DELETE /posts/{id} with an id that parses as zero or as
\* a negative integer answer 400.
C7_NonPositiveId ==
    (OnPost /\ IsDecimalInteger(IdText(last.path)) /\ last.id <= 0)
        => last.resp.status = 400

\* the body is no JSON for a PostRequest, or its title or content is blank
InvalidBody(body) ==
    LET u == UnmarshalPostRequest(body)
    IN  \/ u.err # errNone
        \/ TrimSpace(u.req.title) = <<>>
        \/ TrimSpace(u.req.content) = <<>>

\* C8: POST /posts and PUT /posts/{id} with a body that is malformed or has
\* a blank title or content answer 400 without a backend call, and leave the
\* bucket as it was.
C8_InvalidBody ==
    (last.route \in {"create", "update"} /\ InvalidBody(last.body))
        => /\ last.resp.status = 400
           /\ last.calls = <<>>
           /\ ~last.changed

C8_Witness ==
    /\ last.route = "update" /\ last.body = bBlankContent
    /\ last.id = 1 /\ last.existed
    /\ last.resp.status = 400

\* a backend call of the last request failed, or fetched bytes that are no Post
StorageFailure ==
    \E i \in 1..Len(last.calls) : last.calls[i].res \in {"failed", "undecodable"}

\* C9: GET, PUT and DELETE /posts/{id} with a positive id answer 500 when a
\* backend call of the request fails or the stored bytes do not decode.
C9_StorageFailureIs500 ==
    (OnPost /\ last.id > 0 /\ StorageFailure) => last.resp.status = 500

\* C10: PUT /posts/{id} with a valid body for a positive id without a stored
\* object answers 404 {"error":"post not found"} and writes nothing.
C10_UpdateMissing ==
    (last.route = "update" /\ last.id > 0 /\ ~InvalidBody(last.body) /\ ~last.existed)
        => /\ last.resp = Response(404, ErrorBody(<<"post", "not", "found">>), JSONHeaders)
           /\ ~last.changed
           /\ \A i \in 1..Len(last.calls) : last.calls[i].op # "put"

C10_Witness ==
    /\ last.route = "update" /\ last.id = 1 /\ ~last.existed
    /\ last.body = bHello
    /\ last.resp.status = 404

\* the last request was a DELETE of a positive id whose backend calls did not
\* fail and fetched no bytes that are no Post
CleanDelete ==
    /\ last.route = "delete" /\ last.id > 0
    /\ \A i \in 1..Len(last.calls) : last.calls[i].res \in {"ok", "nokey"}

StoredIDs(st) ==
    {UnmarshalPost(st[k]).post.id :
        k \in {j \in DOMAIN st : /\ HasSuffix(j, <<".json">>) /\ st[j] # Absent
                                  /\ UnmarshalPost(st[j]).err = errNone}}

MaxStoredID(st) ==
    IF StoredIDs(st) = {} THEN 0
    ELSE CHOOSE m \in StoredIDs(st) : \A n \in StoredIDs(st) : n <= m

\* C12: the id a successful CreatePost assigns is 1 plus the largest id of
\* the posts the bucket held when the request arrived (1 for a bucket without
\* posts), and at least 1.
C12_NextIdIsMaxPlusOne ==
    [][(last'.route = "create" /\ last'.svcCalled /\ last'.svcErr = errNone)
          => /\ last'.id = MaxStoredID(store) + 1
             /\ last'.id >= 1]_vars

\* both invocations have answered 201 for the same id, p before q
SameIdCreated(p, q) ==
    /\ inflight[p].pc = "done" /\ inflight[q].pc = "done"
    /\ inflight[p].resp.status = 201 /\ inflight[q].resp.status = 201
    /\ inflight[p].post.id = inflight[q].post.id
    /\ 0 < inflight[p].order /\ inflight[p].order < inflight[q].order

\* C13: two POST /posts with different valid bodies can interleave so that
\* both take the same next id and both answer 201; the bucket then holds the
\* post written last under the key of that id, and the other post under no key.
C13_LostWrite ==
    \A p \in Invocations, q \in Invocations :
        (SameIdCreated(p, q) /\ inflight[p].req # inflight[q].req)
            => /\ store[PostKey(inflight[q].post.id)] = MarshalPost(inflight[q].post)
               /\ \A k \in DOMAIN store : store[k] # MarshalPost(inflight[p].post)

C13_Witness ==
    /\ SameIdCreated("a", "b")
    /\ inflight["a"].req = PostRequest(sHello, sWorld)
    /\ inflight["b"].req = PostRequest(sHi, sThere)
    /\ inflight["a"].post.id = 1
    /\ store[PostKey(1)] = MarshalPost(Post(1, sHi, sThere, tZero, tZero))
    /\ \A i \in Ids : i > 1 => store[PostKey(i)] = Absent

\* the keys the last repository operation wrote with success
WrittenKeys(e) ==
    {e.calls[i].key : i \in {j \in 1..Len(e.calls) :
                                e.calls[j].op = "put" /\ e.calls[j].res = "ok"}}

\* C14: every object that S3Repository.CreatePost or UpdatePost writes is
\* stored under posts/<n>.json where n is the id inside the stored JSON, and no
\* other key changes; UpdatePost(id, post) stores the id of the path whatever
\* id the passed post carried.
C14_KeyMatchesStoredId ==
    [][last'.route \in {"repo.create", "repo.update"}
          => /\ \A k \in WrittenKeys(last') :
                   /\ UnmarshalPost(store'[k]).err = errNone
                   /\ k = PostKey(UnmarshalPost(store'[k]).post.id)
                   /\ last'.route = "repo.update"
                         => store'[k] = MarshalPost([last'.arg EXCEPT !.id = last'.id])
             /\ \A k \in DOMAIN store : store'[k] # store[k] => k \in WrittenKeys(last')]_vars

C14_Witness ==
    /\ last.route = "repo.update" /\ last.svcErr = errNone
    /\ last.id = 2 /\ last.arg.id = 1
    /\ WrittenKeys(last) = {PostKey(2)}
    /\ UnmarshalPost(store[PostKey(2)]).post.id = 2

\* the objects under posts/ that the last operation could fetch and that
\* decode as a Post
DecodableObjects(e) ==
    {k \in Keys :
        /\ Head(k) = "posts/" /\ store[k] # Absent
        /\ \A i \in 1..Len(e.calls) :
              ~(e.calls[i].op = "get" /\ e.calls[i].key = k /\ e.calls[i].res = "failed")
        /\ UnmarshalPost(store[k]).err = errNone}

\* C15: whenever the key listing succeeds, S3Repository.ListPosts returns as
\* many posts as there are objects under posts/ that can be fetched and decoded
\* as a Post at the time of the call.
C15_ListCountsDecodable ==
    (last.route = "repo.list" /\ last.svcErr = errNone)
        => Len(last.posts) = Cardinality(DecodableObjects(last))

\* the GetObject calls of the last operation that gave a post
FetchedOk(e) == SelectSeq(e.calls, LAMBDA c : c.op = "get" /\ c.res = "ok")

\* the keys under posts/ ending in .json that ListObjectsV2 returns
ListedJSONKeys == SelectSeq(ListObjectsV2(store, {}).contents,
                            LAMBDA k : HasSuffix(k, <<".json">>))

\* C16: the listing of GET /posts fails only when the ListObjectsV2 call
\* itself fails; an object that cannot be fetched or decoded is left out and
\* every other listed object is returned, in order; a bucket without objects
\* gives an empty sequence, no error and 200 with an empty array.
C16_ListSkipsBrokenObjects ==
    last.route = "list"
        => /\ last.svcErr # errNone <=> last.calls[1] = Call("list", <<>>, "failed")
           /\ last.svcErr # errNone
                 => last.svcErr = <<"failed", "to", "list", "posts", ":">>
                                    \o <<"failed", "to", "list", "posts", ":">> \o errBackend
           /\ last.svcErr = errNone
                 => /\ last.resp.status = 200
                    /\ last.resp.body = MarshalPosts(last.posts)
                    /\ last.posts = [i \in 1..Len(FetchedOk(last)) |->
                                        UnmarshalPost(store[FetchedOk(last)[i].key]).post]
                    /\ SubSeq(last.calls, 2, Len(last.calls))
                         \in {c \in [1..Len(ListedJSONKeys) -> [op : {"get"}, key : Keys,
                                   res : {"ok", "failed", "undecodable"}]] :
                                 \A i \in DOMAIN c :
                                    /\ c[i].key = ListedJSONKeys[i]
                                    /\ c[i].res # "failed"
                                         => (c[i].res = "ok"
                                               <=> UnmarshalPost(store[c[i].key]).err = errNone)}
                    /\ store = EmptyStore => last.resp.body = Arr(<<>>)

C16_Witness ==
    /\ last.route = "list" /\ last.resp.status = 200
    /\ \E i \in 1..Len(last.calls) :
          last.calls[i].op = "get" /\ last.calls[i].res = "failed"
    /\ Len(last.posts) = 1

\* the response of Success and Created when json.Marshal fails
MarshalFallback ==
    Response(500, Obj(<<Member("error", "str",
                               Escape(<<"failed", "to", "marshal", "response">>))>>),
             JSONHeaders)

\* the status of each error builder
ErrorStatus == [BadRequest |-> 400, NotFound |-> 404, InternalServerError |-> 500]

\* what is common to the two statements about Success and Created: data that
\* json.Marshal accepts, NoContent and the error builders
BuilderContract(success, created) ==
    /\ (built.builder = "Success" /\ built.data.type = "post")
          => built.resp = Response(success, MarshalPost(built.data.post), JSONHeaders)
    /\ (built.builder = "Success" /\ built.data.type = "posts")
          => built.resp = Response(success, MarshalPosts(built.data.posts), JSONHeaders)
    /\ (built.builder = "Created" /\ built.data.type = "post")
          => built.resp = Response(created, MarshalPost(built.data.post), JSONHeaders)
    /\ (built.builder = "Created" /\ built.data.type = "posts")
          => built.resp = Response(created, MarshalPosts(built.data.posts), JSONHeaders)
    /\ built.builder = "NoContent" => built.resp = Response(204, EmptyText, {})
    /\ built.builder \in DOMAIN ErrorStatus
          => built.resp = Response(ErrorStatus[built.builder],
                                   Obj(<<Member("error", "str", Escape(built.message))>>),
                                   JSONHeaders)

ErrorShape(body) ==
    /\ body.kind = "object" /\ body.items = <<>>
    /\ Len(body.members) = 1
    /\ body.members[1].k = "error" /\ body.members[1].t = "str"

MainOnPost(e, method) ==
    /\ e.method = method /\ HasPrefix(e.path, pPostsSlash)
    /\ ~Atoi(TrimPrefix(e.path, pPostsSlash)).err
    /\ Atoi(TrimPrefix(e.path, pPostsSlash)).n \in Ids
    /\ \A i \in 1..Len(e.calls) : e.calls[i].res # "failed"

MainId(e) == Atoi(TrimPrefix(e.path, pPostsSlash)).n

\* C19: in the single-file handler, PUT /posts/{id} with a numeric id and a
\* JSON body stores the body under posts/{id}.json with the id of the URL and
\* answers 200 with the updated post; a GET /posts/{id} that follows returns it.
C19_MainPutOverwrites ==
    /\ [](( /\ MainOnPost(last, "PUT")
            /\ UnmarshalMainPost(last.body).err = errNone)
             => /\ last.resp.status = 200
                /\ last.resp.body =
                      MarshalMainPost([UnmarshalMainPost(last.body).post
                                          EXCEPT !.id = MainId(last)])
                /\ store[PostKey(MainId(last))] = last.resp.body)
    /\ [][( /\ MainOnPost(last, "PUT")
            /\ UnmarshalMainPost(last.body).err = errNone
            /\ MainOnPost(last', "GET") /\ last'.path = last.path)
             => last'.resp = Response(200, last.resp.body, JSONHeaders)]_vars

\* C20: in the single-file handler, DELETE /posts/{id} with a numeric id
\* removes posts/{id}.json and answers 204 with no content; a GET /posts/{id}
\* that follows answers 404.
C20_MainDeleteRemoves ==
    /\ [](MainOnPost(last, "DELETE")
             => /\ last.resp = Response(204, EmptyText, {})
                /\ store[PostKey(MainId(last))] = Absent)
    /\ [][( /\ MainOnPost(last, "DELETE")
            /\ MainOnPost(last', "GET") /\ last'.path = last.path)
             => last'.resp.status = 404]_vars

\* a call of S3Repository.DeletePost whose DeleteObject did not fail
RepoDeleted(e) ==
    /\ e.route = "repo.delete"
    /\ e.calls = <<Call("delete", PostKey(e.id), "ok")>>

RepoWritten(e) == IF e.route = "repo.update" THEN [e.arg EXCEPT !.id = e.id] ELSE e.arg

\* CreatePost or UpdatePost of the repository whose PutObject did not fail
RepoWrote(e) ==
    /\ e.route \in {"repo.create", "repo.update"}
    /\ e.calls = <<Call("put", PostKey(e.id), "ok")>>

\* C22: the writes of the repository are unconditional: CreatePost of an id
\* that has an object replaces it without error and UpdatePost of an id that
\* has none creates it; a GetPost of the id that follows returns exactly the
\* post that was written.
C22_LastWriteWins ==
    /\ [](RepoWrote(last)
             => /\ last.svcErr = errNone
                /\ store[PostKey(last.id)] = MarshalPost(RepoWritten(last)))
    /\ []((last.route \in {"repo.create", "repo.update"} /\ last.svcErr # errNone)
             => last.calls = <<Call("put", PostKey(last.id), "failed")>>)
    /\ [][(/\ RepoWrote(last)
           /\ last'.route = "repo.get" /\ last'.id = last.id
           /\ last'.calls # <<Call("get", PostKey(last.id), "failed")>>)
             => (last'.svcErr = errNone /\ last'.post = RepoWritten(last))]_vars

C22_Witness ==
    /\ last.route = "repo.get" /\ last.after = "repo.create" /\ last.id = 1
    /\ last.svcErr = errNone
    /\ last.post = Post(1, sHi, sThere, tZero, tSeed)
    /\ store[HelloKey] = HelloObject

\* how often x occurs in the sequence
Count(seq, x) == Cardinality({i \in DOMAIN seq : seq[i] = x})

SameMultiset(a, b) ==
    /\ Len(a) = Len(b)
    /\ \A i \in DOMAIN a : Count(a, a[i]) = Count(b, a[i])

\* C23: whatever the interleaving of the goroutines, the parallel ListPosts
\* returns the multiset of posts that the sequential ListPosts returns for
\* the same bucket and the same outcome of every call: every post that was
\* fetched and decoded once, none that was not; both fail when the listing
\* fails.
C23_ParallelEqualsSequential ==
    par.pc = "done"
        => /\ par.err = errNone <=> S3Repository_ListPosts(store, par.plan).err = errNone
           /\ par.err = S3Repository_ListPosts(store, par.plan).err
           /\ par.err = errNone
                 => /\ SameMultiset(par.posts, S3Repository_ListPosts(store, par.plan).posts)
                    /\ par.resp.status = 200
                    /\ \E perm \in [1..Len(par.posts) -> 1..Len(par.posts)] :
                          par.resp.body = MarshalPosts([i \in 1..Len(par.posts) |->
                              S3Repository_ListPosts(store, par.plan).posts[perm[i]]])

C23_Witness ==
    /\ par.pc = "done" /\ par.err = errNone
    /\ Len(par.posts) = 2
    /\ par.posts # S3Repository_ListPosts(store, par.plan).posts
    /\ SameMultiset(par.posts, S3Repository_ListPosts(store, par.plan).posts)

\* no goroutine of the listing is running or about to append
AllJoined ==
    /\ \A k \in Keys : par.g[k].pc \in {"none", "done"}
    /\ par.wg = 0 /\ par.mu = <<>>

\* C24: the parallel ListPosts returns only when every goroutine it started
\* has finished; the request gets exactly one response; and when every call
\* to the bucket returns, a listing that has started always returns.
C24_JoinBeforeReturn ==
    /\ [](par.pc = "done" => (AllJoined /\ par.responses = 1 /\ par.resp # NoResponse))
    /\ [](par.pc # "done" => (par.responses = 0 /\ par.resp = NoResponse))
    /\ [](par.wg = Cardinality({k \in Keys : par.g[k].pc \in {"run", "fetched", "locked"}}))
    /\ (par.pc = "loop" ~> par.pc = "done")

C24_Witness ==
    /\ par.pc = "done" /\ AllJoined /\ par.responses = 1
    /\ Cardinality({k \in Keys : par.g[k].pc = "done"}) = 2
    /\ Len(par.posts) = 1 /\ par.resp.status = 200

\* C25: one request at a time, whatever calls fail and whatever objects are
\* undecodable, POST /posts never writes a key that held an object before
\* the request.
C25_CreateNeverOverwrites ==
    (last.route = "create" /\ WrittenKeys(last) # {})
        => (~last.existed /\ WrittenKeys(last) = {PostKey(last.id)})

\* the most recent Set of the key of the last operation
LastSet == clog.sets[clog.key]

\* no entry that cleanup removed was unexpired, and none it kept was expired
CleanupExact ==
    (clog'.op = "cleanup" /\ clog' # clog) =>
        \A k \in CacheKeys :
            /\ cache'.items[k].exists
                    <=> (cache.items[k].exists /\ now <= clog.sets[k].at + cache.ttl)
            /\ cache'.items[k].exists => cache'.items[k] = cache.items[k]

\* C28: Get reports a hit only for a key that was Set and neither Deleted nor
\* Cleared since, no later than the ttl after that Set, and returns the data of
\* that Set; a round of cleanup removes the expired entries and only those.
C28_HitOnlyFreshSet ==
    /\ [](clog.op = "get" /\ clog.found
            => /\ LastSet.set
               /\ clog.at <= LastSet.at + cache.ttl
               /\ clog.data = LastSet.data)
    /\ [][CleanupExact]_vars

\* a hit at the last tick of an entry, after a round of cleanup that kept this
\* entry and removed the expired entry of another key
C28_Witness ==
    /\ clog.op = "get" /\ clog.found
    /\ clog.at = LastSet.at + cache.ttl
    /\ \E k \in TestKeys \ {clog.key} : clog.sets[k].set /\ ~cache.items[k].exists

\* the cache entry of a key is in the map and has not expired
Unexpired(key) == cache.items[key].exists /\ now <= cache.items[key].ExpiresAt

\* the post the repository returns now for the id, without a failing call
StoredPost(id) == S3Repository_GetPost(store, {}, id)

\* the posts the repository lists now, without a failing call
StoredList == S3Repository_ListPosts(store, {})

\* C26: every unexpired entry of the cache of the service agrees with storage:
\* post:<id> holds the post stored for id, and posts:list holds what the
\* repository's ListPosts returns now.
C26_CacheCoherent ==
    /\ \A id \in Ids :
          Unexpired(PostCacheKey(id))
              => /\ StoredPost(id).err = errNone
                 /\ cache.items[PostCacheKey(id)].Data = PostValue(StoredPost(id).post)
    /\ Unexpired(ListCacheKey)
          => cache.items[ListCacheKey].Data = PostsValue(StoredList.posts)

\* C27: a GetPost or ListPosts call that begins after UpdatePost or DeletePost
\* has returned, with no write running meanwhile, returns what storage holds
\* after the write, whatever reading calls ran concurrently with the write.
C27_ReadsSeeLastWrite ==
    (clog.op \in {"get", "list"} /\ clog.clean /\ clog.err = errNone)
        => clog.data = clog.fresh

\* the keys whose object differs between two states of the bucket
ChangedKeys(before, after) == {k \in Keys : before[k] # after[k]}

\* what a request may change: nothing when it is a GET or is answered with a
\* 4xx or 5xx status, and otherwise only the object of the post it names
FrameOfRequest ==
    LET e == last'
        changed == ChangedKeys(store, store')
    IN  /\ e.method = "GET" => changed = {}
        /\ e.resp.status >= 400 => changed = {}
        /\ e.route \in {"create", "update", "delete"} => changed \subseteq {PostKey(e.id)}

\* C29: GET requests never modify storage; a request answered with a 4xx or 5xx
\* status leaves storage as it was; a successful PUT or DELETE changes only
\* posts/<id>.json, and a successful POST only the object of the assigned id.
C29_Frame == [][FrameOfRequest]_vars

\* a successful PUT rewrote its post in a bucket that holds other objects
C29_Witness ==
    /\ last.route = "update" /\ last.resp.status = 200 /\ last.changed
    /\ \E k \in Keys \ {PostKey(last.id)} : store[k] # Absent

\* the log of calls of the last request ends with its only PutObject call
WriteIsLast ==
    /\ last.calls # <<>>
    /\ \A i \in 1..Len(last.calls) : last.calls[i].op = "put" <=> i = Len(last.calls)

\* C30: PUT /posts/{id} checks in this order: the id of the path, the JSON of the
\* body, the title and content, the existence of the post, and then writes.  An
\* unparsable id is answered 400 'invalid post ID' whatever the body, and blank
\* fields are answered 400 without a call to storage, whether the post exists
\* or not.
C30_UpdateChecksInOrder ==
    last.route = "update" =>
        LET id == extractIDFromPath(last.path)
            u == UnmarshalPostRequest(last.body)
        IN  CASE id.err ->
                    /\ last.resp = BadRequest(<<"invalid", "post", "ID">>)
                    /\ last.calls = <<>>
              [] u.err # errNone ->
                    /\ last.resp = BadRequest(<<"invalid", "request", "body">>)
                    /\ last.calls = <<>>
              [] id.n <= 0 \/ validatePostRequest(u.req) # errNone ->
                    /\ last.resp.status = 400
                    /\ last.calls = <<>>
              [] OTHER ->
                    /\ last.calls # <<>>
                    /\ last.calls[1].op = "get"
                    /\ last.calls[1].res = "nokey"
                            => last.resp.status = 404 /\ Len(last.calls) = 1
                    /\ Len(last.calls) > 1 => last.calls[1].res = "ok" /\ WriteIsLast

\* a PUT with a blank title or content for an id that has no object was
\* answered 400
C30_Witness ==
    /\ last.route = "update"
    /\ last.id \in Ids /\ store[PostKey(last.id)] = Absent
    /\ ~extractIDFromPath(last.path).err
    /\ UnmarshalPostRequest(last.body).err = errNone
    /\ validatePostRequest(last.req) # errNone
    /\ last.resp.status = 400

====
